---------------------------- MODULE Spec2Model ----------------------------
(***************************************************************************)
(* Model of dnsmate's multi-backend fan-out orchestrator                   *)
(* (backend/app/services/multi_powerdns.py): the per-server circuit        *)
(* breaker, the MultiPowerDNSResult aggregate, and MultiPowerDNSService's  *)
(* convenience wrappers running on one asyncio event loop.                 *)
(*                                                                         *)
(* The specifications share the definitions; among them:                   *)
(*   SpecCB        one CircuitBreaker driven through its three methods     *)
(*   SpecResult    one MultiPowerDNSResult driven through add_result       *)
(*   Spec          concurrent callers of execute_on_all_servers            *)
(*   SpecWrappers  concurrent callers of the five convenience wrappers     *)
(*   SpecSolo      one caller of the wrappers and of the fan-out           *)
(***************************************************************************)
EXTENDS Integers, Sequences, FiniteSets

VARIABLES
    now,               \* time.time(), in whole seconds
    cb,                \* SpecCB: the breaker under test
    cbLast,            \* SpecCB: the last method called on cb and what it returned
    cbRun,             \* SpecCB: record_failure() calls since cb was Closed with failure_count 0
    res,               \* SpecResult: the MultiPowerDNSResult under test
    endpoints,         \* the powerdns_settings table (the registry)
    circuit_breakers,  \* MultiPowerDNSService.circuit_breakers
    op,                \* per caller: the wrapper call in progress
    task,              \* per caller and server: the asyncio task of execute_on_all_servers
    ret,               \* per caller: what the wrapper returned (a result, or a raise)
    adapter_calls,     \* per caller: the PowerDNSClient calls started, in order
    cb_records,        \* per caller and server: record_success/record_failure calls of the task
    performance_metrics, \* MultiPowerDNSService.performance_metrics
    started,           \* number of service calls made so far
    breaker_ref,       \* SpecRace: the object circuit_breakers holds for the raced server
    objects,           \* SpecRace: the CircuitBreaker objects made so far
    race,              \* SpecRace: per task, where it is and the breaker object it holds
    raceLog,           \* SpecRace: the breaker when both tasks were in flight, the records since
    req,               \* SpecSettings: per request of the settings API, where it is
    users,             \* SpecTokens: the users rows (the current user's, or none)
    api_tokens,        \* SpecTokens: the api_tokens rows of the current user
    token_req,         \* SpecTokens: per request of the token API, where it is
    requests,          \* SpecLimiter: InMemoryRateLimiter.requests
    blocked_ips,       \* SpecLimiter: InMemoryRateLimiter.blocked_ips
    calls,             \* SpecLimiter: per key, the times of its is_allowed calls
    allowed            \* SpecLimiter: what the last is_allowed call returned

vars == <<now, cb, cbLast, cbRun, res, endpoints, circuit_breakers, op, task, ret,
          adapter_calls, cb_records, performance_metrics, started,
          breaker_ref, objects, race, raceLog, req, users, api_tokens, token_req,
          requests, blocked_ips, calls, allowed>>

raceVars == <<breaker_ref, objects, race, raceLog>>

tokenVars == <<users, api_tokens, token_req>>

limiterVars == <<requests, blocked_ips, calls, allowed>>

cbVars == <<cb, cbLast, cbRun>>
svcVars == <<endpoints, circuit_breakers, op, task, ret, adapter_calls, cb_records,
             performance_metrics, started>>

-----------------------------------------------------------------------------
(* Bounds of the model *)

\* the clock stops here
MaxTime == 61
\* record_failure() calls on the breaker under test
MaxFailureCount == 7
\* record_success() calls on the breaker under test
MaxSuccessfulCalls == 2
\* add_result calls on the result under test
MaxResults == 3
\* wrapper calls over all callers
MaxOperations == 2

\* the clock of the breaker harness stops here
MaxBreakerTime == 92

\* how far one step of the clock moves it: the service's clock, the breaker harness's
TickSteps == {61}
BreakerTickSteps == {30, 31}

-----------------------------------------------------------------------------
(* CircuitBreaker (multi_powerdns.py 18-59) *)

CLOSED == "closed"
OPEN == "open"
HALF_OPEN == "half_open"
CircuitState == {CLOSED, OPEN, HALF_OPEN}

failure_threshold == 5
recovery_timeout == 60

\* CircuitBreaker(): the dataclass defaults
NewCircuitBreaker ==
    [failure_count |-> 0, last_failure_time |-> 0, state |-> CLOSED, successful_calls |-> 0]

\* can_execute at time t: the value returned and the breaker afterwards
can_execute(b, t) ==
    IF b.state = CLOSED THEN [ret |-> TRUE, cb |-> b]
    ELSE IF b.state = OPEN THEN
        IF t - b.last_failure_time > recovery_timeout
        THEN [ret |-> TRUE, cb |-> [b EXCEPT !.state = HALF_OPEN]]
        ELSE [ret |-> FALSE, cb |-> b]
    ELSE [ret |-> TRUE, cb |-> b]

\* record_success that leaves failure_count alone
record_success_keep(b) ==
    LET b1 == [b EXCEPT !.successful_calls = b.successful_calls + 1]
    IN  IF b.state = HALF_OPEN THEN [b1 EXCEPT !.state = CLOSED] ELSE b1

record_success(b) ==
    LET b1 == [b EXCEPT !.failure_count = 0, !.successful_calls = b.successful_calls + 1]
    IN  IF b.state = HALF_OPEN THEN [b1 EXCEPT !.state = CLOSED] ELSE b1

\* a breaker that reopens on any failure of the Half-Open probe
record_failure_trip(b, t) ==
    LET b1 == [b EXCEPT !.failure_count = b.failure_count + 1, !.last_failure_time = t]
    IN  IF b1.failure_count >= failure_threshold \/ b.state = HALF_OPEN
        THEN [b1 EXCEPT !.state = OPEN] ELSE b1

\* a breaker that keeps the time of its first failure
record_failure_first_time(b, t) ==
    LET b1 == [b EXCEPT !.failure_count = b.failure_count + 1,
                        !.last_failure_time = IF b.failure_count = 0 THEN t ELSE @]
    IN  IF b1.failure_count >= failure_threshold THEN [b1 EXCEPT !.state = OPEN] ELSE b1

\* a breaker that opens one failure late
record_failure_late(b, t) ==
    LET b1 == [b EXCEPT !.failure_count = b.failure_count + 1, !.last_failure_time = t]
    IN  IF b1.failure_count > failure_threshold THEN [b1 EXCEPT !.state = OPEN] ELSE b1

record_failure(b, t) ==
    LET b1 == [b EXCEPT !.failure_count = b.failure_count + 1, !.last_failure_time = t]
    IN  IF b1.failure_count >= failure_threshold THEN [b1 EXCEPT !.state = OPEN] ELSE b1

-----------------------------------------------------------------------------
(* The clock *)

\* time passes while the loop waits for I/O; the first steps of tasks just created are
\* already on the loop's ready queue, so they run before the clock moves
Tick ==
    /\ \A c \in DOMAIN op : op[c].pc # "starting"
    /\ \E d \in TickSteps :
        /\ now + d <= MaxTime
        /\ now' = now + d
    /\ UNCHANGED <<cbVars, res, raceVars, req, tokenVars, limiterVars, svcVars>>

-----------------------------------------------------------------------------
(* SpecCB: a breaker driven through its methods *)

CBTick ==
    /\ \E d \in BreakerTickSteps :
        /\ now + d <= MaxBreakerTime
        /\ now' = now + d
    /\ UNCHANGED <<cbVars, res, raceVars, req, tokenVars, limiterVars, svcVars>>

CBCanExecute ==
    /\ cb' = can_execute(cb, now).cb
    /\ cbLast' = [call |-> "can_execute", ret |-> can_execute(cb, now).ret]
    /\ UNCHANGED <<now, cbRun, res, raceVars, req, tokenVars, limiterVars, svcVars>>

CBRecordSuccess ==
    /\ cb.successful_calls < MaxSuccessfulCalls
    /\ cb' = record_success(cb)
    /\ cbLast' = [call |-> "record_success", ret |-> TRUE]
    /\ cbRun' = IF cb'.state = CLOSED /\ cb'.failure_count = 0 THEN 0 ELSE -1
    /\ UNCHANGED <<now, res, raceVars, req, tokenVars, limiterVars, svcVars>>

CBRecordFailure ==
    /\ cb.failure_count < MaxFailureCount
    /\ cb' = record_failure(cb, now)
    /\ cbLast' = [call |-> "record_failure", ret |-> TRUE]
    /\ cbRun' = IF cbRun >= 0 THEN cbRun + 1 ELSE cbRun
    /\ UNCHANGED <<now, res, raceVars, req, tokenVars, limiterVars, svcVars>>


CBInit ==
    /\ cb = NewCircuitBreaker
    /\ cbLast = [call |-> "init", ret |-> TRUE]
    /\ cbRun = 0

-----------------------------------------------------------------------------
(* MultiPowerDNSResult (multi_powerdns.py 62-119) *)

Servers == {1, 2, 3}

ServerName(s) == <<"ns1", "ns2", "ns3">>[s]

\* MultiPowerDNSResult()
NewResult == [results |-> <<>>, success_count |-> 0, failure_count |-> 0, total_servers |-> 0]

NoError == "None"
NoPayload == "None"
Payload == "payload"

\* add_result that forgets to count a failure
add_result_uncounted(r, server_name, server_id, success, result, error, response_time_ms) ==
    [results |-> Append(r.results,
                        [server_name |-> server_name, server_id |-> server_id,
                         success |-> success, result |-> result, error |-> error,
                         response_time_ms |-> response_time_ms]),
     success_count |-> IF success THEN r.success_count + 1 ELSE r.success_count,
     failure_count |-> r.failure_count,
     total_servers |-> r.total_servers + 1]

\* add_result with total_servers counted inside the failure branch only
add_result_total_in_else(r, server_name, server_id, success, result, error, response_time_ms) ==
    [results |-> Append(r.results,
                        [server_name |-> server_name, server_id |-> server_id,
                         success |-> success, result |-> result, error |-> error,
                         response_time_ms |-> response_time_ms]),
     success_count |-> IF success THEN r.success_count + 1 ELSE r.success_count,
     failure_count |-> IF success THEN r.failure_count ELSE r.failure_count + 1,
     total_servers |-> IF success THEN r.total_servers ELSE r.total_servers + 1]

add_result(r, server_name, server_id, success, result, error, response_time_ms) ==
    [results |-> Append(r.results,
                        [server_name |-> server_name, server_id |-> server_id,
                         success |-> success, result |-> result, error |-> error,
                         response_time_ms |-> response_time_ms]),
     success_count |-> IF success THEN r.success_count + 1 ELSE r.success_count,
     failure_count |-> IF success THEN r.failure_count ELSE r.failure_count + 1,
     total_servers |-> r.total_servers + 1]

\* "some but not all", with the lower bound forgotten
is_partial_success_loose(r) == r.success_count < r.total_servers

is_partial_success(r) == 0 < r.success_count /\ r.success_count < r.total_servers

is_complete_success(r) == r.success_count = r.total_servers /\ r.total_servers > 0

is_complete_failure(r) == r.failure_count = r.total_servers /\ r.total_servers > 0

\* get_fastest_server's answer for a result without a success outcome
NoName == "None"

\* the first outcome of lowest response_time_ms among the outcomes at the indices I
\* (min() keeps the first of equal keys)
first_min(r, I) ==
    CHOOSE i \in I :
        /\ \A j \in I : r.results[i].response_time_ms <= r.results[j].response_time_ms
        /\ \A j \in I : r.results[j].response_time_ms = r.results[i].response_time_ms
                           => i <= j

\* get_fastest_server that forgets to keep the successes only
get_fastest_server_any(r) ==
    IF r.results = <<>> THEN NoName
    ELSE r.results[first_min(r, DOMAIN r.results)].server_name

get_fastest_server(r) ==
    LET successful_results == {i \in DOMAIN r.results : r.results[i].success}
    IN  IF successful_results = {} THEN NoName
        ELSE r.results[first_min(r, successful_results)].server_name

-----------------------------------------------------------------------------
(* SpecResult: a result filled the way test_multi_server.py fills one *)

Latencies == {10, 50, 200}

ResAddResult ==
    /\ res.total_servers < MaxResults
    /\ \E s \in Servers, success \in BOOLEAN, ms \in Latencies :
        res' = IF success
               THEN add_result(res, ServerName(s), s, TRUE, Payload, NoError, ms)
               ELSE add_result(res, ServerName(s), s, FALSE, NoPayload, "Simulated failure", ms)
    /\ UNCHANGED <<now, cbVars, raceVars, req, tokenVars, limiterVars, svcVars>>


-----------------------------------------------------------------------------
(* The registry: PowerDNSSettingsService over the powerdns_settings table *)

Range(seq) == {seq[i] : i \in 1..Len(seq)}

\* a row of the table powerdns_settings: the columns of the mapped class and the column
\* multi_server_mode that the migration add_multi_server_mode adds to the table
TableRows == [is_active : BOOLEAN, multi_server_mode : BOOLEAN, is_default : BOOLEAN]

\* a row of the table: is_active, the column multi_server_mode, is_default
Row(a, m, d) == [is_active |-> a, multi_server_mode |-> m, is_default |-> d]

\* an instance of the mapped class PowerDNSSettings (models/settings.py 24-41): the
\* class declares no multi_server_mode, so an instance has no such attribute
Rows == [is_active : BOOLEAN, is_default : BOOLEAN]

\* the instance select(PowerDNSSettings) loads from a row of the table
PowerDNSSettings(row) == [is_active |-> row.is_active, is_default |-> row.is_default]

\* getattr on an instance raises AttributeError for a name the instance does not have
HasAttr(inst, name) == name \in DOMAIN inst

\* ORDER BY is_default DESC, name: the place of row s in the answer
OrderKey(tbl, s) == (IF tbl[s].is_default THEN 0 ELSE Cardinality(Servers)) + s

RECURSIVE Ordered(_, _)
\* the servers of S as a sequence, in the order of get_powerdns_settings
Ordered(tbl, S) ==
    IF S = {} THEN <<>>
    ELSE LET first == CHOOSE s \in S : \A o \in S : OrderKey(tbl, s) <= OrderKey(tbl, o)
         IN  <<first>> \o Ordered(tbl, S \ {first})

\* get_powerdns_settings: the active rows, defaults first, then by name
get_powerdns_settings(tbl) == Ordered(tbl, {s \in DOMAIN tbl : tbl[s].is_active})

NoServer == 0
MultipleResultsFound == -1

\* the first query of get_default_powerdns_setting (115-119): the active row flagged
\* default, None without one; scalar_one_or_none() raises when there are two
flagged_default(tbl) ==
    LET defaults == {s \in DOMAIN tbl : tbl[s].is_default /\ tbl[s].is_active}
    IN  IF Cardinality(defaults) > 1 THEN MultipleResultsFound
        ELSE IF defaults # {} THEN CHOOSE s \in defaults : TRUE
        ELSE NoServer

\* the second query read with scalar_one(), which raises when no row is active
first_active_strict(tbl) ==
    LET active == {s \in DOMAIN tbl : tbl[s].is_active}
    IN  IF active # {} THEN CHOOSE s \in active : \A o \in active : s <= o
        ELSE MultipleResultsFound

\* the second query of get_default_powerdns_setting (123-129), made when the first
\* found no row: the active row of lowest id, None without one
first_active(tbl) ==
    LET active == {s \in DOMAIN tbl : tbl[s].is_active}
    IN  IF active # {} THEN CHOOSE s \in active : \A o \in active : s <= o
        ELSE NoServer

\* get_default_powerdns_setting on a table that does not change between its two
\* queries: the active default row, else the active row of lowest id, else None
get_default_powerdns_setting(tbl) ==
    IF flagged_default(tbl) # NoServer THEN flagged_default(tbl) ELSE first_active(tbl)

-----------------------------------------------------------------------------
(* MultiPowerDNSService (multi_powerdns.py 122-526) *)

Callers == {"c1", "c2"}

\* the PowerDNSClient method each convenience wrapper calls
Wrappers == {"create_zone", "delete_zone", "add_record", "update_record", "delete_record"}

\* the fan-out timeout of execute_on_all_servers, seconds
fanout_timeout == 30

CircuitOpenError == "Circuit breaker open for server"
TimedOutError == "Operation timed out"
NoDefaultError == "No default PowerDNS server configured"
\* str(e) of what a PowerDNSClient request raises: the Exception with the error detail
\* that _request makes of an HTTPStatusError, or an exception _request does not catch
\* and that has no message, as httpx raises on a timeout
ApiError == "PowerDNS API error"
AdapterErrors == {ApiError, ""}

\* what the client method of a wrapper does with the arguments the routes pass:
\* PowerDNSClient has no add_record, so add_record_operation raises AttributeError
\* before any client call; create_zone is given a dict and raises on zone.name before
\* its request; update_record awaits verify_zone_setup and then raises, on the zone
\* that is not set up or on record.name of the dict; delete_zone and delete_record
\* make their request and return or raise
Undefined == {"add_record"}
RaisesAtOnce == {"add_record", "create_zone"}
NeverReturns == RaisesAtOnce \cup {"update_record"}

\* str(e) of the AttributeError a method in RaisesAtOnce raises
AttributeError(m) ==
    IF m \in Undefined
    THEN "'PowerDNSClient' object has no attribute 'add_record'"
    ELSE "'dict' object has no attribute 'name'"

\* str(e) of what the client call of method m raises once it has been awaited
CallErrors(m) == IF m = "update_record" THEN {ApiError, AttributeError(m)} ELSE AdapterErrors

\* the methods whose first request sits in get_zone's try block with the bare except
\* (powerdns.py 97-106): whatever that request raises, CancelledError included, is
\* swallowed and the request is made again
Retries == {"update_record"}

\* _get_circuit_breaker: the map after the lookup (a breaker is made on first use)
\* and the breaker itself
with_circuit_breaker(cbs, s) ==
    IF s \in DOMAIN cbs THEN cbs
    ELSE [x \in DOMAIN cbs \cup {s} |-> IF x = s THEN NewCircuitBreaker ELSE cbs[x]]

get_circuit_breaker(cbs, s) == with_circuit_breaker(cbs, s)[s]

\* should_use_multi_server (137-145): the list comprehension reads s.multi_server_mode
\* of every instance the query returned; an exception of the query, or the
\* AttributeError of an instance without the attribute, is logged and answered False
should_use_multi_server(tbl, db_ok) ==
    LET settings == get_powerdns_settings(tbl)
        inst(s) == PowerDNSSettings(tbl[s])
    IN  IF ~db_ok THEN FALSE
        ELSE IF \E s \in Range(settings) : ~HasAttr(inst(s), "multi_server_mode") THEN FALSE
        ELSE Cardinality({s \in Range(settings) :
                            inst(s).multi_server_mode /\ inst(s).is_active}) > 1

\* get_active_servers: the rows whose breaker lets the call through, in query order;
\* an exception of the query is logged and answered []
get_active_servers(tbl, cbs, t, db_ok) ==
    IF db_ok
    THEN SelectSeq(get_powerdns_settings(tbl),
                   LAMBDA s : tbl[s].is_active
                              /\ can_execute(get_circuit_breaker(cbs, s), t).ret)
    ELSE <<>>

\* the breakers after get_active_servers: each active row's breaker exists and has
\* answered can_execute() once
breakers_after_selection(tbl, cbs, t, db_ok) ==
    IF db_ok
    THEN LET seen == {s \in Servers : tbl[s].is_active}
         IN  [s \in DOMAIN cbs \cup seen |->
                 IF s \in seen THEN can_execute(get_circuit_breaker(cbs, s), t).cb ELSE cbs[s]]
    ELSE cbs


\* a task of execute_on_all_servers: not made, "created", "calling" (inside the
\* PowerDNSClient call), "retrying" (inside the second request of get_zone), "done"
\* (returned its dict) or "cancelled"
NoTask ==
    [st |-> "none", t0 |-> 0, success |-> FALSE, result |-> NoPayload, error |-> NoError,
     response_time_ms |-> 0]

CreatedTask == [NoTask EXCEPT !.st = "created"]

\* _execute_on_server_with_metrics without the breaker check before the call
execute_start_unguarded(b, t, m) ==
    IF m \in RaisesAtOnce
    THEN [cb |-> record_failure(b, t), called |-> m \notin Undefined, failures |-> 1,
          task |-> [NoTask EXCEPT !.st = "done", !.t0 = t, !.error = AttributeError(m),
                                  !.response_time_ms = (t - t) * 1000]]
    ELSE [cb |-> b, called |-> TRUE, failures |-> 0,
          task |-> [NoTask EXCEPT !.st = "calling", !.t0 = t]]

\* _execute_on_server_with_metrics with the operation of method m, up to its first
\* await or, without one, to its end (176-184, 205-215): the breaker is asked; a
\* refusal is raised inside the try, so it is recorded as a failure and returned as a
\* failed dict; an operation that raises before it awaits anything is recorded and
\* returned likewise; otherwise the client call starts
execute_start(b, t, m) ==
    LET ce == can_execute(b, t)
    IN  IF ~ce.ret
        THEN [cb |-> record_failure(ce.cb, t), called |-> FALSE, failures |-> 1,
              task |-> [NoTask EXCEPT !.st = "done", !.t0 = t, !.error = CircuitOpenError,
                                      !.response_time_ms = (t - t) * 1000]]
        ELSE IF m \in RaisesAtOnce
        THEN [cb |-> record_failure(ce.cb, t), called |-> m \notin Undefined,
              failures |-> 1,
              task |-> [NoTask EXCEPT !.st = "done", !.t0 = t, !.error = AttributeError(m),
                                      !.response_time_ms = (t - t) * 1000]]
        ELSE [cb |-> ce.cb, called |-> TRUE, failures |-> 0,
              task |-> [NoTask EXCEPT !.st = "calling", !.t0 = t]]

\* the rest of _execute_on_server_with_metrics once the client call has returned
\* (186-203) or raised err (205-215)
execute_finish(b, tk, ok, err, t) ==
    IF ok
    THEN [cb |-> record_success(b),
          task |-> [tk EXCEPT !.st = "done", !.success = TRUE, !.result = Payload,
                              !.response_time_ms = (t - tk.t0) * 1000]]
    ELSE [cb |-> record_failure(b, t),
          task |-> [tk EXCEPT !.st = "done", !.success = FALSE, !.error = err,
                              !.response_time_ms = (t - tk.t0) * 1000]]

metrics_window == 100

\* performance_metrics that keeps every measurement
track_metrics_unbounded(pm, s, ms) ==
    LET old == IF s \in DOMAIN pm THEN pm[s] ELSE <<>>
    IN  [x \in DOMAIN pm \cup {s} |-> IF x = s THEN Append(old, ms) ELSE pm[x]]

\* performance_metrics after a successful call of ms milliseconds on server s (190-196)
track_metrics(pm, s, ms) ==
    LET old == IF s \in DOMAIN pm THEN pm[s] ELSE <<>>
        all == Append(old, ms)
        kept == IF Len(all) > metrics_window
                THEN SubSeq(all, Len(all) - metrics_window + 1, Len(all)) ELSE all
    IN  [x \in DOMAIN pm \cup {s} |-> IF x = s THEN kept ELSE pm[x]]

\* results_list when gather() finished in time: each task's dict (245-248)
gathered_results(tasks) ==
    [s \in Servers |-> [exception |-> FALSE, success |-> tasks[s].success,
                        result |-> tasks[s].result, error |-> tasks[s].error,
                        response_time_ms |-> tasks[s].response_time_ms]]

\* results_list after asyncio.TimeoutError: one Exception per task, whatever the task
\* had done (249-255)
timed_out_results(tasks) ==
    [s \in Servers |-> [exception |-> TRUE, success |-> FALSE, result |-> NoPayload,
                        error |-> TimedOutError, response_time_ms |-> 0]]

RECURSIVE process_results(_, _, _)
\* the loop over zip(tasks, results_list) (258-281)
process_results(r, servers, results_list) ==
    IF servers = <<>> THEN r
    ELSE LET s == Head(servers)
             o == results_list[s]
             r1 == IF o.exception
                   THEN add_result(r, ServerName(s), s, FALSE, NoPayload, o.error, 0)
                   ELSE add_result(r, ServerName(s), s, o.success, o.result, o.error,
                                   o.response_time_ms)
         IN  process_results(r1, Tail(servers), results_list)

NoRecords == [success |-> 0, failure |-> 0]

\* execute_on_all_servers whose result loop does not catch the Exception it re-raises
fanout_return_uncaught(servers, results_list, o, timed_out) ==
    IF \E s \in Range(servers) : results_list[s].exception
    THEN [kind |-> "raise", result |-> NewResult, mode |-> o.mode,
          registry_ok |-> o.registry_ok, timed_out |-> timed_out]
    ELSE [kind |-> "result", result |-> process_results(NewResult, servers, results_list),
          mode |-> o.mode, registry_ok |-> o.registry_ok, timed_out |-> timed_out]

\* what execute_on_all_servers returns once it has its results_list (257-291)
fanout_return(servers, results_list, o, timed_out) ==
    [kind |-> "result", result |-> process_results(NewResult, servers, results_list),
     mode |-> o.mode, registry_ok |-> o.registry_ok, timed_out |-> timed_out]

\* a wrapper call in progress: where it is, the client method it uses, the servers
\* selected, and when wait_for started
IdleOp ==
    [pc |-> "idle", method |-> "none", mode |-> "none", registry_ok |-> TRUE,
     servers |-> <<>>, wait_start |-> 0]

\* what a wrapper call gave its caller, with the mode it ran in, whether every registry
\* query answered, and whether wait_for timed out
NoReturn ==
    [kind |-> "none", result |-> NewResult, mode |-> "none", registry_ok |-> TRUE,
     timed_out |-> FALSE]
Returned(r, o, timed_out) ==
    [kind |-> "result", result |-> r, mode |-> o.mode, registry_ok |-> o.registry_ok,
     timed_out |-> timed_out]
Raised(o) ==
    [kind |-> "raise", result |-> NewResult, mode |-> o.mode, registry_ok |-> FALSE,
     timed_out |-> FALSE]

NoTasks == [s \in Servers |-> NoTask]
NoTaskRecords == [s \in Servers |-> NoRecords]

-----------------------------------------------------------------------------
(* The wrappers, one action per stretch between two awaits.  The tasks, the list of  *)
(* servers and the client calls are local to a call: they are gone when it returns.  *)

\* a caller calls execute_on_all_servers itself, with the operation and the arguments
\* the wrapper of method m hands it; it awaits get_active_servers (217-226)
InvokeFanOut(c, m) ==
    /\ op[c].pc = "idle"
    /\ started < MaxOperations
    /\ started' = started + 1
    /\ op' = [op EXCEPT ![c] = [IdleOp EXCEPT !.pc = "active_query", !.method = m,
                                              !.mode = "multi"]]
    /\ ret' = [ret EXCEPT ![c] = NoReturn]
    /\ UNCHANGED <<now, cbVars, res, raceVars, req, tokenVars, limiterVars, endpoints, circuit_breakers, task, adapter_calls,
                   cb_records, performance_metrics>>

\* a caller calls one of the five wrappers; the wrapper awaits should_use_multi_server
Invoke(c, m) ==
    /\ op[c].pc = "idle"
    /\ started < MaxOperations
    /\ started' = started + 1
    /\ op' = [op EXCEPT ![c] = [IdleOp EXCEPT !.pc = "mode_query", !.method = m]]
    /\ ret' = [ret EXCEPT ![c] = NoReturn]
    /\ UNCHANGED <<now, cbVars, res, raceVars, req, tokenVars, limiterVars, endpoints, circuit_breakers, task, adapter_calls,
                   cb_records, performance_metrics>>

\* should_use_multi_server answers: the wrapper goes on to get_default_powerdns_setting
\* or into execute_on_all_servers, which awaits get_active_servers
ModeQuery(c, db_ok) ==
    /\ op[c].pc = "mode_query"
    /\ op' = [op EXCEPT ![c] =
                IF should_use_multi_server(endpoints, db_ok)
                THEN [@ EXCEPT !.pc = "active_query", !.mode = "multi", !.registry_ok = db_ok]
                ELSE [@ EXCEPT !.pc = "default_query", !.mode = "single",
                               !.registry_ok = db_ok]]
    /\ UNCHANGED <<now, cbVars, res, raceVars, req, tokenVars, limiterVars, endpoints, circuit_breakers, task, ret, adapter_calls,
                   cb_records, performance_metrics, started>>

\* a variant of the single-endpoint branch that records a successful call on the
\* endpoint's breaker, as the fan-out does
single_endpoint_call_recorded(cbs, pm, d, ok, err) ==
    [circuit_breakers |-> IF ok
                          THEN LET w == with_circuit_breaker(cbs, d)
                               IN  [w EXCEPT ![d] = record_success(@)]
                          ELSE cbs,
     performance_metrics |-> pm,
     result |-> IF ok
                THEN add_result(NewResult, ServerName(d), d, TRUE, Payload, NoError, 0)
                ELSE add_result(NewResult, ServerName(d), d, FALSE, NoPayload, err, 0)]

\* the single-endpoint branch of a convenience wrapper once the default endpoint d
\* is known: one client call in try/except and one add_result; the breakers and
\* the metrics are neither read nor written
single_endpoint_call(cbs, pm, d, ok, err) ==
    [circuit_breakers |-> cbs,
     performance_metrics |-> pm,
     result |-> IF ok
                THEN add_result(NewResult, ServerName(d), d, TRUE, Payload, NoError, 0)
                ELSE add_result(NewResult, ServerName(d), d, FALSE, NoPayload, err, 0)]

\* the client calls the single-endpoint branch makes on the default endpoint d
single_calls(d, m) == IF m \in Undefined THEN <<>> ELSE <<[server |-> d, method |-> m]>>

\* the try block of the single-endpoint branch is entered with the default endpoint d:
\* a client method that raises before it awaits anything ends the call here with the
\* one failure; otherwise the client call starts
SingleStart(c, d) ==
    IF op[c].method \in RaisesAtOnce
    THEN LET out == single_endpoint_call(circuit_breakers, performance_metrics, d, FALSE,
                                         AttributeError(op[c].method))
         IN  /\ op' = [op EXCEPT ![c] = IdleOp]
             /\ ret' = [ret EXCEPT ![c] = Returned(out.result, op[c], FALSE)]
             /\ circuit_breakers' = out.circuit_breakers
             /\ performance_metrics' = out.performance_metrics
             /\ UNCHANGED adapter_calls
    ELSE /\ op' = [op EXCEPT ![c].pc = "single_call", ![c].servers = <<d>>]
         /\ adapter_calls' = [adapter_calls EXCEPT ![c] = single_calls(d, op[c].method)]
         /\ UNCHANGED <<ret, circuit_breakers, performance_metrics>>

\* the wrapper returns the result of single-endpoint mode without a default endpoint
NoDefault(c) ==
    /\ op' = [op EXCEPT ![c] = IdleOp]
    /\ ret' = [ret EXCEPT ![c] =
                Returned(add_result(NewResult, "No default server", 0, FALSE,
                                    NoPayload, NoDefaultError, 0),
                         op[c], FALSE)]
    /\ UNCHANGED <<adapter_calls, circuit_breakers, performance_metrics>>

\* a query of get_default_powerdns_setting raises, and so does the wrapper
SingleRaise(c) ==
    /\ op' = [op EXCEPT ![c] = IdleOp]
    /\ ret' = [ret EXCEPT ![c] = Raised(op[c])]
    /\ UNCHANGED <<adapter_calls, circuit_breakers, performance_metrics>>

\* the first query of get_default_powerdns_setting answers (or raises): with a flagged
\* default the try block is entered, without one the second query is awaited
DefaultQuery(c, db_ok) ==
    /\ op[c].pc = "default_query"
    /\ LET d == flagged_default(endpoints)
       IN  IF ~db_ok \/ d = MultipleResultsFound THEN SingleRaise(c)
           ELSE IF d = NoServer
           THEN /\ op' = [op EXCEPT ![c].pc = "fallback_query"]
                /\ UNCHANGED <<ret, adapter_calls, circuit_breakers, performance_metrics>>
           ELSE SingleStart(c, d)
    /\ UNCHANGED <<now, cbVars, res, raceVars, req, tokenVars, limiterVars, endpoints, task, cb_records,
                   started>>

\* the second query of get_default_powerdns_setting answers (or raises): no active row
\* gives the one-failure result; otherwise the try block is entered
FallbackQuery(c, db_ok) ==
    /\ op[c].pc = "fallback_query"
    /\ LET d == first_active(endpoints)
       IN  IF ~db_ok \/ d = MultipleResultsFound THEN SingleRaise(c)
           ELSE IF d = NoServer THEN NoDefault(c)
           ELSE SingleStart(c, d)
    /\ UNCHANGED <<now, cbVars, res, raceVars, req, tokenVars, limiterVars, endpoints, task, cb_records,
                   started>>

\* the client call of single-endpoint mode returns (ok) or raises
SingleComplete(c, ok) ==
    /\ op[c].pc = "single_call"
    /\ ok => op[c].method \notin NeverReturns
    /\ \E err \in CallErrors(op[c].method) :
        LET d == op[c].servers[1]
            out == single_endpoint_call(circuit_breakers, performance_metrics, d, ok, err)
        IN  /\ ret' = [ret EXCEPT ![c] = Returned(out.result, op[c], FALSE)]
            /\ circuit_breakers' = out.circuit_breakers
            /\ performance_metrics' = out.performance_metrics
    /\ op' = [op EXCEPT ![c] = IdleOp]
    /\ adapter_calls' = [adapter_calls EXCEPT ![c] = <<>>]
    /\ UNCHANGED <<now, cbVars, res, raceVars, req, tokenVars, limiterVars, endpoints, task, cb_records,
                   started>>

\* get_active_servers answers; with no server the empty result is returned, otherwise
\* one task per server is created and wait_for(gather(...)) is awaited (226-248)
ActiveQuery(c, db_ok) ==
    /\ op[c].pc = "active_query"
    /\ LET servers == get_active_servers(endpoints, circuit_breakers, now, db_ok)
           o == [op[c] EXCEPT !.registry_ok = @ /\ db_ok]
       IN  /\ circuit_breakers' = breakers_after_selection(endpoints, circuit_breakers, now, db_ok)
           /\ IF servers = <<>>
              THEN /\ op' = [op EXCEPT ![c] = IdleOp]
                   /\ ret' = [ret EXCEPT ![c] = Returned(NewResult, o, FALSE)]
                   /\ UNCHANGED task
              ELSE /\ op' = [op EXCEPT ![c] =
                                [o EXCEPT !.pc = "starting", !.servers = servers,
                                          !.wait_start = now]]
                   /\ task' = [task EXCEPT ![c] =
                                [s \in Servers |-> IF s \in Range(servers)
                                                   THEN CreatedTask ELSE NoTask]]
                   /\ UNCHANGED ret
    /\ UNCHANGED <<now, cbVars, res, raceVars, req, tokenVars, limiterVars, endpoints, adapter_calls, cb_records,
                   performance_metrics, started>>

\* the client calls started by the first steps of the tasks, in task order
started_calls(servers, cbs, t, m) ==
    LET called == SelectSeq(servers, LAMBDA s : execute_start(cbs[s], t, m).called)
    IN  [i \in 1..Len(called) |-> [server |-> called[i], method |-> m]]

\* the event loop runs the new tasks, one after the other, each up to its first await
StartTasks(c) ==
    /\ op[c].pc = "starting"
    /\ LET mine == Range(op[c].servers)
           first(s) == execute_start(circuit_breakers[s], now, op[c].method)
       IN  /\ circuit_breakers' = [s \in DOMAIN circuit_breakers |->
                                    IF s \in mine THEN first(s).cb ELSE circuit_breakers[s]]
           /\ task' = [task EXCEPT ![c] =
                        [s \in Servers |-> IF s \in mine THEN first(s).task ELSE NoTask]]
           /\ cb_records' = [cb_records EXCEPT ![c] =
                              [s \in Servers |->
                                  IF s \in mine
                                  THEN [NoRecords EXCEPT !.failure = first(s).failures]
                                  ELSE NoRecords]]
    /\ adapter_calls' = [adapter_calls EXCEPT ![c] =
                          started_calls(op[c].servers, circuit_breakers, now, op[c].method)]
    /\ op' = [op EXCEPT ![c].pc = "gather"]
    /\ UNCHANGED <<now, cbVars, res, raceVars, req, tokenVars, limiterVars, endpoints, ret, performance_metrics, started>>

\* what task.cancel() does to a task inside its client call: CancelledError is raised
\* at the await; in get_zone's first request the bare except swallows it and the task
\* goes on with the second request, anywhere else it ends the task, which records
\* nothing (CancelledError is no Exception)
cancel(tk, m) ==
    IF tk.st = "calling" /\ m \in Retries THEN [tk EXCEPT !.st = "retrying"]
    ELSE IF tk.st \in {"calling", "retrying"} THEN [tk EXCEPT !.st = "cancelled"]
    ELSE tk

\* the first request of get_zone raises: the bare except makes the second request
TaskRetry(c, s) ==
    /\ op[c].pc = "gather"
    /\ task[c][s].st = "calling"
    /\ op[c].method \in Retries
    /\ task' = [task EXCEPT ![c][s].st = "retrying"]
    /\ UNCHANGED <<now, cbVars, res, raceVars, req, tokenVars, limiterVars, endpoints, op, ret, adapter_calls, started,
                   circuit_breakers, performance_metrics, cb_records>>

\* the client call of one task returns (ok) or raises, also after wait_for has
\* cancelled the task in vain
TaskComplete(c, s, ok) ==
    /\ op[c].pc \in {"gather", "cancelling"}
    /\ task[c][s].st \in {"calling", "retrying"}
    /\ ok => op[c].method \notin NeverReturns
    /\ \E err \in CallErrors(op[c].method) :
        LET fin == execute_finish(circuit_breakers[s], task[c][s], ok, err, now)
        IN  /\ circuit_breakers' = [circuit_breakers EXCEPT ![s] = fin.cb]
            /\ task' = [task EXCEPT ![c][s] = fin.task]
            /\ performance_metrics' =
                  IF ok THEN track_metrics(performance_metrics, s, fin.task.response_time_ms)
                  ELSE performance_metrics
    /\ cb_records' = [cb_records EXCEPT ![c][s] =
                        IF ok THEN [@ EXCEPT !.success = @ + 1]
                        ELSE [@ EXCEPT !.failure = @ + 1]]
    /\ UNCHANGED <<now, cbVars, res, raceVars, req, tokenVars, limiterVars, endpoints, op, ret, adapter_calls, started>>

RECURSIVE SumSeq(_)
SumSeq(q) == IF q = <<>> THEN 0 ELSE q[1] + SumSeq(Tail(q))

\* a quotient of floats, kept as numerator and denominator
Quotient(n, d) == <<n, d>>
ZeroFloat == <<0, 1>>

SeqMin(q) == CHOOSE x \in Range(q) : \A y \in Range(q) : x <= y
SeqMax(q) == CHOOSE x \in Range(q) : \A y \in Range(q) : y <= x

\* get_server_performance_metrics (293-304): a read of performance_metrics
get_server_performance_metrics(pm, s) ==
    IF s \notin DOMAIN pm
    THEN [avg_response_time |-> ZeroFloat, total_calls |-> 0]
    ELSE [avg_response_time |-> IF pm[s] # <<>> THEN Quotient(SumSeq(pm[s]), Len(pm[s]))
                                ELSE ZeroFloat,
          min_response_time |-> IF pm[s] # <<>> THEN SeqMin(pm[s]) ELSE 0,
          max_response_time |-> IF pm[s] # <<>> THEN SeqMax(pm[s]) ELSE 0,
          total_calls |-> Len(pm[s])]

\* the health_data of get_health_status for the servers of the registry's answer
health_data(tbl, servers, cbs, pm) ==
    [total_servers |-> Len(servers),
     active_servers |-> Cardinality({s \in Range(servers) : tbl[s].is_active}),
     healthy_servers |->
        Cardinality({s \in Range(servers) : s \in DOMAIN cbs /\ cbs[s].state = CLOSED}),
     circuit_breaker_status |->
        [s \in Range(servers) \cap DOMAIN cbs |->
            [state |-> cbs[s].state, failure_count |-> cbs[s].failure_count,
             successful_calls |-> cbs[s].successful_calls]],
     performance_summary |->
        [s \in Range(servers) |-> get_server_performance_metrics(pm, s)]]

\* get_health_status that looks its breakers up with _get_circuit_breaker, which makes
\* the breaker a server does not have yet
get_health_status_creating(tbl, cbs, pm) ==
    LET servers == get_powerdns_settings(tbl)
        made == [s \in DOMAIN cbs \cup Range(servers) |->
                    IF s \in DOMAIN cbs THEN cbs[s] ELSE NewCircuitBreaker]
    IN  [health |-> health_data(tbl, servers, made, pm),
         circuit_breakers |-> made, performance_metrics |-> pm]

\* get_health_status (306-333) once the registry answered: what it returns, and the
\* breakers and metrics of the service after it
get_health_status(tbl, cbs, pm) ==
    LET servers == get_powerdns_settings(tbl)
    IN  [health |-> health_data(tbl, servers, cbs, pm),
         circuit_breakers |-> cbs, performance_metrics |-> pm]

\* what get_health_status gave its caller, and when
HealthReturned(h, t) ==
    [kind |-> "health", result |-> NewResult, mode |-> "none", registry_ok |-> TRUE,
     timed_out |-> FALSE, health |-> h, at |-> t]

\* a caller calls get_health_status, which awaits the registry
InvokeHealth(c) ==
    /\ op[c].pc = "idle"
    /\ op' = [op EXCEPT ![c] = [IdleOp EXCEPT !.pc = "health_query",
                                              !.method = "get_health_status"]]
    /\ UNCHANGED <<now, cbVars, res, raceVars, req, tokenVars, limiterVars, endpoints, circuit_breakers, task, ret,
                   adapter_calls, cb_records, performance_metrics, started>>

\* the registry answers and the health data are put together and returned, or the
\* query raises and so does get_health_status
HealthQuery(c, db_ok) ==
    /\ op[c].pc = "health_query"
    /\ op' = [op EXCEPT ![c] = IdleOp]
    /\ IF db_ok
       THEN LET out == get_health_status(endpoints, circuit_breakers, performance_metrics)
            IN  /\ ret' = [ret EXCEPT ![c] = HealthReturned(out.health, now)]
                /\ circuit_breakers' = out.circuit_breakers
                /\ performance_metrics' = out.performance_metrics
       ELSE /\ ret' = [ret EXCEPT ![c] = Raised(op[c])]
            /\ UNCHANGED <<circuit_breakers, performance_metrics>>
    /\ UNCHANGED <<now, cbVars, res, raceVars, req, tokenVars, limiterVars, endpoints, task, adapter_calls,
                   cb_records, started>>

\* every task is done: gather() hands the dicts over, the results are processed and
\* the MultiPowerDNSResult is returned
Gathered(c) ==
    /\ op[c].pc = "gather"
    /\ \A s \in Range(op[c].servers) : task[c][s].st = "done"
    /\ ret' = [ret EXCEPT ![c] =
                fanout_return(op[c].servers, gathered_results(task[c]), op[c], FALSE)]
    /\ op' = [op EXCEPT ![c] = IdleOp]
    /\ task' = [task EXCEPT ![c] = NoTasks]
    /\ adapter_calls' = [adapter_calls EXCEPT ![c] = <<>>]
    /\ cb_records' = [cb_records EXCEPT ![c] = NoTaskRecords]
    /\ UNCHANGED <<now, cbVars, res, raceVars, req, tokenVars, limiterVars, endpoints, circuit_breakers, performance_metrics,
                   started>>

\* the tasks of a fan-out that are inside their client call
InFlight(tasks, servers) == {s \in Range(servers) : tasks[s].st \in {"calling", "retrying"}}

\* the deadline of wait_for passes (245-248): wait_for cancels the gather, which
\* cancels the tasks that are not done, and goes on waiting until each task has
\* finished; the event loop runs other callbacks before wait_for is woken again
Timeout(c) ==
    /\ op[c].pc = "gather"
    /\ InFlight(task[c], op[c].servers) # {}
    /\ now - op[c].wait_start >= fanout_timeout
    /\ op' = [op EXCEPT ![c].pc = "cancelling"]
    /\ task' = [task EXCEPT ![c] = [s \in Servers |-> cancel(task[c][s], op[c].method)]]
    /\ UNCHANGED <<now, cbVars, res, raceVars, req, tokenVars, limiterVars, endpoints, circuit_breakers, performance_metrics,
                   started, ret, adapter_calls, cb_records>>

\* the last of the cancelled tasks has finished: wait_for raises asyncio.TimeoutError
\* and every task is reported as timed out (249-255)
TimedOut(c) ==
    /\ op[c].pc = "cancelling"
    /\ InFlight(task[c], op[c].servers) = {}
    /\ ret' = [ret EXCEPT ![c] =
                fanout_return(op[c].servers, timed_out_results(task[c]), op[c], TRUE)]
    /\ op' = [op EXCEPT ![c] = IdleOp]
    /\ task' = [task EXCEPT ![c] = NoTasks]
    /\ adapter_calls' = [adapter_calls EXCEPT ![c] = <<>>]
    /\ cb_records' = [cb_records EXCEPT ![c] = NoTaskRecords]
    /\ UNCHANGED <<now, cbVars, res, raceVars, req, tokenVars, limiterVars, endpoints, circuit_breakers, performance_metrics,
                   started>>

-----------------------------------------------------------------------------
(* SpecRace: two tasks of concurrent fan-outs on the same server.  circuit_breakers    *)
(* holds a reference to a CircuitBreaker object; each task takes the reference before  *)
(* its client call and uses it after the call.                                         *)

RaceTasks == {"t1", "t2"}

\* no object: the server has no entry in circuit_breakers yet
NoObject == 0

\* a _get_circuit_breaker that hands out a copy of the stored breaker
circuit_breaker_copy(ref, objs) ==
    IF ref = NoObject
    THEN [ref |-> Len(objs) + 1, breaker_ref |-> Len(objs) + 1,
          objects |-> Append(objs, NewCircuitBreaker)]
    ELSE [ref |-> Len(objs) + 1, breaker_ref |-> ref, objects |-> Append(objs, objs[ref])]

\* _get_circuit_breaker on the objects: the entry is made on first use, and the stored
\* object itself is returned
circuit_breaker_ref(ref, objs) ==
    IF ref = NoObject
    THEN [ref |-> Len(objs) + 1, breaker_ref |-> Len(objs) + 1,
          objects |-> Append(objs, NewCircuitBreaker)]
    ELSE [ref |-> ref, breaker_ref |-> ref, objects |-> objs]

\* the operation of the raced tasks: one whose client call is awaited
RaceMethod == "delete_zone"

NewRaceTask == [pc |-> "created", ref |-> NoObject]
NoRaceLog == [base |-> [set |-> FALSE, cb |-> NewCircuitBreaker], records |-> <<>>]

\* one record_success()/record_failure() call applied to breaker b
apply_record(b, rec) ==
    IF rec.kind = "success" THEN record_success(b) ELSE record_failure(b, rec.at)

\* the first step of a task: it takes the breaker and asks it (176-184); a refusal is
\* recorded at once (205-207)
RaceStart(t) ==
    /\ race[t].pc = "created"
    /\ LET g == circuit_breaker_ref(breaker_ref, objects)
           first == execute_start(g.objects[g.ref], now, RaceMethod)
       IN  /\ breaker_ref' = g.breaker_ref
           /\ objects' = [g.objects EXCEPT ![g.ref] = first.cb]
           /\ race' = [race EXCEPT ![t] = [pc |-> first.task.st, ref |-> g.ref]]
           /\ raceLog' =
                 [base |-> IF \A o \in RaceTasks : race'[o].pc = "calling"
                           THEN [set |-> TRUE, cb |-> objects'[breaker_ref']]
                           ELSE raceLog.base,
                  records |-> IF first.called THEN raceLog.records
                              ELSE Append(raceLog.records, [kind |-> "failure", at |-> now])]
    /\ UNCHANGED <<now, cbVars, res, req, tokenVars, limiterVars, svcVars>>

\* the client call of a task returns or raises: the task records it on the breaker it
\* holds (186-187, 205-207)
RaceFinish(t, ok) ==
    /\ race[t].pc = "calling"
    /\ \E err \in CallErrors(RaceMethod) :
        objects' = [objects EXCEPT ![race[t].ref] =
                       execute_finish(@, NoTask, ok, err, now).cb]
    /\ race' = [race EXCEPT ![t].pc = "done"]
    /\ raceLog' = [raceLog EXCEPT !.records =
                      Append(@, [kind |-> IF ok THEN "success" ELSE "failure", at |-> now])]
    /\ UNCHANGED <<now, cbVars, res, req, tokenVars, limiterVars, svcVars, breaker_ref>>

\* the breakers the raced server can have when the tasks are made: none yet, Closed
\* after k failures in a row, or Open after failure_threshold of them
RaceBreakers ==
    {[failure_count |-> k, last_failure_time |-> 0,
      state |-> IF k >= failure_threshold THEN OPEN ELSE CLOSED, successful_calls |-> 0] :
        k \in 0..failure_threshold}

RaceInit ==
    /\ \/ breaker_ref = NoObject /\ objects = <<>>
       \/ breaker_ref = 1 /\ \E b \in RaceBreakers : objects = <<b>>
    /\ race = [t \in RaceTasks |-> NewRaceTask]
    /\ raceLog = NoRaceLog

\* the harness variables where no task races
RaceUnused ==
    /\ breaker_ref = NoObject
    /\ objects = <<>>
    /\ race = [t \in RaceTasks |-> NewRaceTask]
    /\ raceLog = NoRaceLog

-----------------------------------------------------------------------------
(* SpecSettings: the settings API over the powerdns_settings table *)

Requests == {"r1", "r2"}

\* a field of a request body: <<>> when the body does not carry it, else <<value>>
Unset == <<>>
Truthy(f) == f = <<TRUE>>

\* what a request returned: nothing yet, a row id (NoServer for None / False), or an
\* exception
NoValue == [kind |-> "none", value |-> NoServer]
Value(v) == [kind |-> "value", value |-> v]
Raise(e) == [kind |-> "raise", value |-> e]

IdleRequest == [pc |-> "idle", kind |-> "none", id |-> NoServer, is_default |-> Unset,
                is_active |-> Unset, loaded |-> <<>>, ret |-> NoValue]

\* no request of the settings API is running
AdminUnused == req = [r \in Requests |-> IdleRequest]

\* PowerDNSSettingCreate bodies (is_default defaults to False, is_active to True) and
\* PowerDNSSettingUpdate bodies (every field optional)
CreateBodies == {<<d, a>> : d \in BOOLEAN, a \in BOOLEAN}
UpdateBodies == {<<<<TRUE>>, Unset>>, <<<<FALSE>>, Unset>>,
                 <<Unset, <<TRUE>>>>, <<Unset, <<FALSE>>>>}

\* the id the next INSERT gets
NextId(tbl) == IF DOMAIN tbl = {} THEN 1
               ELSE 1 + CHOOSE s \in DOMAIN tbl : \A o \in DOMAIN tbl : o <= s

\* _unset_all_defaults: UPDATE powerdns_settings SET is_default = False, on every row
unset_all_defaults(tbl) == [s \in DOMAIN tbl |-> [tbl[s] EXCEPT !.is_default = FALSE]]

\* the columns the flush of the session writes for a row loaded as old: the fields the
\* body carries whose value differs from the value the session holds
flush(row, old, body) ==
    [row EXCEPT
       !.is_default = IF body.is_default # Unset /\ body.is_default[1] # old.is_default
                      THEN body.is_default[1] ELSE @,
       !.is_active = IF body.is_active # Unset /\ body.is_active[1] # old.is_active
                     THEN body.is_active[1] ELSE @]

\* the session holds a change of the row loaded as old: a field of the body differs
\* from the value the session holds, so the flush emits an UPDATE
dirty(old, body) == flush(old, old, body) # old

StaleDataError == -2
TypeError == -3
InvalidRequestError == -4

\* POST /powerdns: create_powerdns_setting is called (133-147).  setting.dict() carries
\* multi_server_mode, a keyword the constructor of the mapped class rejects: the call
\* raises TypeError, at once or, for a default, after _unset_all_defaults
AdminCreate(r, body) ==
    /\ req[r].pc = "idle"
    /\ req' = [req EXCEPT ![r] =
                 IF body[1]
                 THEN [IdleRequest EXCEPT !.kind = "create", !.pc = "unset",
                                          !.is_default = <<body[1]>>,
                                          !.is_active = <<body[2]>>]
                 ELSE [IdleRequest EXCEPT !.kind = "create", !.ret = Raise(TypeError)]]
    /\ UNCHANGED <<now, cbVars, res, raceVars, tokenVars, limiterVars, svcVars>>

\* PUT /powerdns/{id}: update_powerdns_setting is called
AdminUpdate(r, id, body) ==
    /\ req[r].pc = "idle"
    /\ req' = [req EXCEPT ![r] =
                 [IdleRequest EXCEPT !.kind = "update", !.pc = "get", !.id = id,
                                     !.is_default = body[1], !.is_active = body[2]]]
    /\ UNCHANGED <<now, cbVars, res, raceVars, tokenVars, limiterVars, svcVars>>

\* DELETE /powerdns/{id}: delete_powerdns_setting is called
AdminDelete(r, id) ==
    /\ req[r].pc = "idle"
    /\ req' = [req EXCEPT ![r] = [IdleRequest EXCEPT !.kind = "delete", !.pc = "get",
                                                     !.id = id]]
    /\ UNCHANGED <<now, cbVars, res, raceVars, tokenVars, limiterVars, svcVars>>

\* get_powerdns_setting: the row of the id is loaded into the session, or the operation
\* returns None / False
AdminGet(r) ==
    /\ req[r].pc = "get"
    /\ req' = [req EXCEPT ![r] =
                 IF req[r].id \in DOMAIN endpoints
                 THEN [req[r] EXCEPT
                         !.loaded = <<endpoints[req[r].id]>>,
                         !.pc = IF req[r].kind = "update" /\ Truthy(req[r].is_default)
                                THEN "unset" ELSE "commit"]
                 ELSE [IdleRequest EXCEPT !.kind = req[r].kind, !.id = req[r].id,
                                          !.ret = Value(NoServer)]]
    /\ UNCHANGED <<now, cbVars, res, raceVars, tokenVars, limiterVars, svcVars>>

\* await self._unset_all_defaults(db): every row of the table, and the row the session
\* holds, loses its flag; create_powerdns_setting then raises on its constructor
AdminUnset(r) ==
    /\ req[r].pc = "unset"
    /\ endpoints' = unset_all_defaults(endpoints)
    /\ req' = [req EXCEPT ![r] =
                 IF req[r].kind = "create"
                 THEN [IdleRequest EXCEPT !.kind = "create", !.ret = Raise(TypeError)]
                 ELSE [req[r] EXCEPT
                         !.pc = "commit",
                         !.loaded = IF @ = <<>> THEN @
                                    ELSE <<[@[1] EXCEPT !.is_default = FALSE]>>]]
    /\ UNCHANGED <<now, cbVars, res, raceVars, tokenVars, limiterVars, circuit_breakers, op, task, ret,
                   adapter_calls, cb_records, performance_metrics, started>>

\* await db.commit(): the session is flushed.  An update emits its UPDATE when the
\* session holds a change, which raises StaleDataError when the row is gone, and goes
\* on to await db.refresh (168-169); a delete emits its DELETE and returns (178-180)
AdminCommit(r) ==
    /\ req[r].pc = "commit"
    /\ LET q == req[r]
           done(v) == [IdleRequest EXCEPT !.kind = q.kind, !.id = q.id, !.ret = v]
       IN  IF q.kind = "update"
           THEN IF ~dirty(q.loaded[1], q)
                THEN /\ endpoints' = endpoints
                     /\ req' = [req EXCEPT ![r].pc = "refresh"]
                ELSE IF q.id \in DOMAIN endpoints
                THEN /\ endpoints' = [endpoints EXCEPT
                                        ![q.id] = flush(@, q.loaded[1], q)]
                     /\ req' = [req EXCEPT ![r].pc = "refresh"]
                ELSE /\ endpoints' = endpoints
                     /\ req' = [req EXCEPT ![r] = done(Raise(StaleDataError))]
           ELSE /\ endpoints' = [s \in DOMAIN endpoints \ {q.id} |-> endpoints[s]]
                /\ req' = [req EXCEPT ![r] = done(Value(q.id))]
    /\ UNCHANGED <<now, cbVars, res, raceVars, tokenVars, limiterVars, circuit_breakers, op, task, ret,
                   adapter_calls, cb_records, performance_metrics, started>>

\* await db.refresh(db_setting) of update_powerdns_setting (169-170): the row is read
\* again and returned; InvalidRequestError when it is gone
AdminRefresh(r) ==
    /\ req[r].pc = "refresh"
    /\ LET q == req[r]
           done(v) == [IdleRequest EXCEPT !.kind = q.kind, !.id = q.id, !.ret = v]
       IN  req' = [req EXCEPT ![r] =
                     IF q.id \in DOMAIN endpoints THEN done(Value(q.id))
                     ELSE done(Raise(InvalidRequestError))]
    /\ UNCHANGED <<now, cbVars, res, raceVars, tokenVars, limiterVars, svcVars>>

\* get_default_powerdns_setting is called and its first query answers: the flagged
\* default is returned, or the second query is awaited
AdminDefault(r) ==
    /\ req[r].pc = "idle"
    /\ LET d == flagged_default(endpoints)
       IN  req' = [req EXCEPT ![r] =
                     IF d = MultipleResultsFound
                     THEN [IdleRequest EXCEPT !.kind = "get_default", !.ret = Raise(d)]
                     ELSE IF d # NoServer
                     THEN [IdleRequest EXCEPT !.kind = "get_default", !.ret = Value(d)]
                     ELSE [IdleRequest EXCEPT !.kind = "get_default", !.pc = "fallback"]]
    /\ UNCHANGED <<now, cbVars, res, raceVars, tokenVars, limiterVars, svcVars>>

\* the second query of get_default_powerdns_setting answers
AdminFallback(r) ==
    /\ req[r].pc = "fallback"
    /\ LET d == first_active(endpoints)
       IN  req' = [req EXCEPT ![r] =
                     [IdleRequest EXCEPT !.kind = "get_default",
                                         !.ret = IF d = MultipleResultsFound
                                                 THEN Raise(d) ELSE Value(d)]]
    /\ UNCHANGED <<now, cbVars, res, raceVars, tokenVars, limiterVars, svcVars>>

\* the tables the settings API is run against: no row, or two rows of which at most
\* one is flagged default (no request can insert a row: see AdminCreate)
SettingsTables ==
    {<<>>} \cup
    {tbl \in {<<Row(a1, FALSE, d1), Row(a2, FALSE, d2)>> :
                 a1 \in BOOLEAN, d1 \in BOOLEAN, a2 \in BOOLEAN, d2 \in BOOLEAN} :
        ~(tbl[1].is_default /\ tbl[2].is_default)}

\* the settings API at rest: one of the tables, no request
AdminInit ==
    /\ endpoints \in SettingsTables
    /\ AdminUnused

-----------------------------------------------------------------------------
(* SpecTokens: the API-token routes of one user over the api_tokens table, and the   *)
(* route that deletes the user                                                        *)

\* the user's limit (User.max_api_tokens) in the model, and the ids its tokens can get
max_api_tokens == 2
TokenIds == 1..(max_api_tokens + 1)

\* the user the token routes get from current_active_user
current_user == "user"

HTTP_200_OK == 200
HTTP_400_BAD_REQUEST == 400
HTTP_404_NOT_FOUND == 404
HTTP_500_INTERNAL_SERVER_ERROR == 500
NoStatus == 0

IdleTokenRequest == [pc |-> "idle", kind |-> "none", id |-> 0, is_active |-> Unset,
                     loaded |-> <<>>, status |-> NoStatus]

\* no request of the token API is running
TokensUnused ==
    /\ users = {current_user}
    /\ api_tokens = <<>>
    /\ token_req = [r \in Requests |-> IdleTokenRequest]

\* SELECT count(id) WHERE user_id = current_user.id AND is_active
token_count(tbl) == Cardinality({t \in DOMAIN tbl : tbl[t].is_active})

\* the limit check of create_api_token (63)
token_limit_reached(count) == count >= max_api_tokens

\* the requests that will still insert a token
InsertingToken == {r \in Requests : token_req[r].kind = "create"
                                       /\ token_req[r].pc \in {"count", "commit"}}

\* a request of the token API is over with a status
token_done(q, st) == [IdleTokenRequest EXCEPT !.kind = q.kind, !.id = q.id, !.status = st]

\* POST /: create_api_token is called; current_active_user has found the user
TokenCreate(r) ==
    /\ token_req[r].pc = "idle"
    /\ current_user \in users
    /\ NextId(api_tokens) + Cardinality(InsertingToken) \in TokenIds
    /\ token_req' = [token_req EXCEPT ![r] =
                       [IdleTokenRequest EXCEPT !.kind = "create", !.pc = "count"]]
    /\ UNCHANGED <<now, cbVars, res, raceVars, req, users, api_tokens, limiterVars, svcVars>>

\* the active tokens are counted; at the limit the request ends with 400 (54-67)
TokenCount(r) ==
    /\ token_req[r].pc = "count"
    /\ token_req' = [token_req EXCEPT ![r] =
                       IF token_limit_reached(token_count(api_tokens))
                       THEN token_done(token_req[r], HTTP_400_BAD_REQUEST)
                       ELSE [token_req[r] EXCEPT !.pc = "commit"]]
    /\ UNCHANGED <<now, cbVars, res, raceVars, req, users, api_tokens, limiterVars, svcVars>>

\* PATCH /{token_id} with {"is_active": v}: update_api_token is called
TokenUpdate(r, id, v) ==
    /\ token_req[r].pc = "idle"
    /\ current_user \in users
    /\ token_req' = [token_req EXCEPT ![r] =
                       [IdleTokenRequest EXCEPT !.kind = "update", !.pc = "get", !.id = id,
                                                !.is_active = <<v>>]]
    /\ UNCHANGED <<now, cbVars, res, raceVars, req, users, api_tokens, limiterVars, svcVars>>

\* DELETE /{token_id}: delete_api_token is called
TokenDelete(r, id) ==
    /\ token_req[r].pc = "idle"
    /\ current_user \in users
    /\ token_req' = [token_req EXCEPT ![r] =
                       [IdleTokenRequest EXCEPT !.kind = "delete", !.pc = "get", !.id = id]]
    /\ UNCHANGED <<now, cbVars, res, raceVars, req, users, api_tokens, limiterVars, svcVars>>

\* the token of the id is loaded into the session, or the request ends with 404
TokenGet(r) ==
    /\ token_req[r].pc = "get"
    /\ token_req' = [token_req EXCEPT ![r] =
                       IF token_req[r].id \in DOMAIN api_tokens
                       THEN [token_req[r] EXCEPT !.pc = "commit",
                                                 !.loaded = <<api_tokens[token_req[r].id]>>]
                       ELSE token_done(token_req[r], HTTP_404_NOT_FOUND)]
    /\ UNCHANGED <<now, cbVars, res, raceVars, req, users, api_tokens, limiterVars, svcVars>>

\* await session.commit().  A creation inserts the new token (is_active defaults to
\* True) and goes on to await session.refresh (89-90); an update writes is_active when
\* the body changed it, which raises StaleDataError (answered with 500) when the row is
\* gone, and goes on to await session.refresh (165-166); a deletion removes the row
\* and answers (202-205)
TokenCommit(r) ==
    /\ token_req[r].pc = "commit"
    /\ token_req[r].kind \in {"create", "update", "delete"}
    /\ LET q == token_req[r]
       IN  IF q.kind = "create"
           THEN LET id == NextId(api_tokens)
                IN  /\ api_tokens' = [t \in DOMAIN api_tokens \cup {id} |->
                                        IF t = id THEN [is_active |-> TRUE]
                                        ELSE api_tokens[t]]
                    /\ token_req' = [token_req EXCEPT ![r].pc = "refresh", ![r].id = id]
           ELSE IF q.kind = "update"
           THEN IF q.is_active[1] = q.loaded[1].is_active
                THEN /\ api_tokens' = api_tokens
                     /\ token_req' = [token_req EXCEPT ![r].pc = "refresh"]
                ELSE IF q.id \in DOMAIN api_tokens
                THEN /\ api_tokens' = [api_tokens EXCEPT ![q.id].is_active = q.is_active[1]]
                     /\ token_req' = [token_req EXCEPT ![r].pc = "refresh"]
                ELSE /\ api_tokens' = api_tokens
                     /\ token_req' = [token_req EXCEPT ![r] =
                                        token_done(q, HTTP_500_INTERNAL_SERVER_ERROR)]
           ELSE /\ api_tokens' = [t \in DOMAIN api_tokens \ {q.id} |-> api_tokens[t]]
                /\ token_req' = [token_req EXCEPT ![r] = token_done(q, HTTP_200_OK)]
    /\ UNCHANGED <<now, cbVars, res, raceVars, req, users, limiterVars, svcVars>>

\* await session.refresh(api_token) of create_api_token (90) and await
\* session.refresh(token) of update_api_token (166): the row is read again and the
\* request answers; when the row is gone the refresh raises InvalidRequestError, which
\* no handler catches, and the request is answered with 500
TokenRefresh(r) ==
    /\ token_req[r].pc = "refresh"
    /\ token_req' = [token_req EXCEPT ![r] =
                       IF token_req[r].id \in DOMAIN api_tokens
                       THEN token_done(token_req[r], HTTP_200_OK)
                       ELSE token_done(token_req[r], HTTP_500_INTERNAL_SERVER_ERROR)]
    /\ UNCHANGED <<now, cbVars, res, raceVars, req, users, api_tokens, limiterVars, svcVars>>

\* DELETE /users/{user_id} for the user of the tokens: delete_user is called by a
\* superuser (users.py 78-83)
UserDelete(r) ==
    /\ token_req[r].pc = "idle"
    /\ token_req' = [token_req EXCEPT ![r] =
                       [IdleTokenRequest EXCEPT !.kind = "delete_user", !.pc = "get_user"]]
    /\ UNCHANGED <<now, cbVars, res, raceVars, req, users, api_tokens, limiterVars, svcVars>>

\* the user is selected, or the request ends with 404 (users.py 85-89)
UserGet(r) ==
    /\ token_req[r].pc = "get_user"
    /\ token_req' = [token_req EXCEPT ![r] =
                       IF current_user \in users
                       THEN [token_req[r] EXCEPT !.pc = "cascade"]
                       ELSE token_done(token_req[r], HTTP_404_NOT_FOUND)]
    /\ UNCHANGED <<now, cbVars, res, raceVars, req, users, api_tokens, limiterVars, svcVars>>

\* await session.delete(user) (users.py 91): the delete cascades over User.api_tokens
\* (models/user.py 46), whose rows are loaded into the session and marked deleted
UserCascade(r) ==
    /\ token_req[r].pc = "cascade"
    /\ token_req' = [token_req EXCEPT ![r].pc = "commit",
                                      ![r].loaded = <<DOMAIN api_tokens>>]
    /\ UNCHANGED <<now, cbVars, res, raceVars, req, users, api_tokens, limiterVars, svcVars>>

\* await session.commit() of delete_user (users.py 92) flushes the session: first the
\* DELETE of the token rows that were loaded, a statement of its own that takes effect
\* at once; a token inserted since the load stays.  With no token loaded the flush
\* starts with the DELETE of the user row
UserFlush(r) ==
    /\ token_req[r].pc = "commit"
    /\ token_req[r].kind = "delete_user"
    /\ token_req[r].loaded[1] # {}
    /\ api_tokens' = [t \in DOMAIN api_tokens \ token_req[r].loaded[1] |-> api_tokens[t]]
    /\ token_req' = [token_req EXCEPT ![r].pc = "delete_row"]
    /\ UNCHANGED <<now, cbVars, res, raceVars, req, users, limiterVars, svcVars>>

\* the flush goes on with the DELETE of the user row and the request answers
\* (users.py 92-93)
UserCommit(r) ==
    /\ token_req[r].kind = "delete_user"
    /\ \/ token_req[r].pc = "delete_row"
       \/ token_req[r].pc = "commit" /\ token_req[r].loaded[1] = {}
    /\ users' = users \ {current_user}
    /\ token_req' = [token_req EXCEPT ![r] = token_done(token_req[r], HTTP_200_OK)]
    /\ UNCHANGED <<now, cbVars, res, raceVars, req, api_tokens, limiterVars, svcVars>>

-----------------------------------------------------------------------------
(* SpecLimiter: InMemoryRateLimiter (rate_limit.py 25-72) under one key *)

\* the limit and the window, in seconds, of the path the key belongs to
RateLimit == 2
RateWindow == 3

\* the is_allowed calls and the time the model follows the limiter for
MaxCalls == 2 * RateLimit + 2
MaxLimiterTime == RateWindow + 1

\* the length of a block, seconds
block_time == 3600

Keys == {"10.0.0.1:/auth/register"}

NoAnswer == [allowed |-> TRUE, info |-> <<>>]

\* InMemoryRateLimiter(): two empty defaultdicts
LimiterUnused ==
    /\ requests = <<>>
    /\ blocked_ips = <<>>
    /\ calls = [k \in Keys |-> <<>>]
    /\ allowed = NoAnswer

\* a dict with key k set to v
Put(d, k, v) == [x \in DOMAIN d \cup {k} |-> IF x = k THEN v ELSE d[x]]

\* is_allowed (32-72): the dicts after the call and the pair it returns
is_allowed(reqs, blocked, key, limit, window, t) ==
    IF key \in DOMAIN blocked /\ blocked[key] > t
    THEN [requests |-> reqs, blocked_ips |-> blocked,
          ret |-> [allowed |-> FALSE,
                   info |-> [allowed |-> limit, remaining |-> 0,
                             reset_time |-> blocked[key],
                             blocked_for |-> blocked[key] - t]]]
    ELSE LET kept == SelectSeq(IF key \in DOMAIN reqs THEN reqs[key] ELSE <<>>,
                               LAMBDA req_time : t - req_time < window)
             current_requests == Len(kept)
         IN  IF current_requests >= limit
             THEN [requests |-> Put(reqs, key, kept),
                   blocked_ips |-> IF current_requests >= limit * 2
                                   THEN Put(blocked, key, t + block_time) ELSE blocked,
                   ret |-> [allowed |-> FALSE,
                            info |-> [allowed |-> limit, remaining |-> 0,
                                      reset_time |-> t + window,
                                      current |-> current_requests]]]
             ELSE [requests |-> Put(reqs, key, Append(kept, t)),
                   blocked_ips |-> blocked,
                   ret |-> [allowed |-> TRUE,
                            info |-> [allowed |-> limit,
                                      remaining |-> limit - current_requests - 1,
                                      reset_time |-> t + window,
                                      current |-> current_requests + 1]]]

\* the middleware asks the limiter for a request of key
LimiterCall(key) ==
    /\ Len(calls[key]) < MaxCalls
    /\ LET out == is_allowed(requests, blocked_ips, key, RateLimit, RateWindow, now)
       IN  /\ requests' = out.requests
           /\ blocked_ips' = out.blocked_ips
           /\ allowed' = out.ret
    /\ calls' = [calls EXCEPT ![key] = Append(@, now)]
    /\ UNCHANGED <<now, cbVars, res, raceVars, req, tokenVars, svcVars>>

\* a second passes
LimiterTick ==
    /\ now < MaxLimiterTime
    /\ now' = now + 1
    /\ UNCHANGED <<cbVars, res, raceVars, req, tokenVars, limiterVars, svcVars>>

-----------------------------------------------------------------------------
(* Initial states *)

\* the tables the concurrent service is run against (the column multi_server_mode is
\* set where the administrator enabled the endpoint for multi-server operations):
\*   no active server; one active server, multi-enabled, not flagged default;
\*   two active servers of which one is multi-enabled, the other one flagged default;
\*   two active multi-enabled servers and an inactive one
Registries ==
    { <<Row(FALSE, FALSE, FALSE), Row(FALSE, FALSE, FALSE), Row(FALSE, FALSE, FALSE)>>,
      <<Row(FALSE, FALSE, FALSE), Row(TRUE, TRUE, FALSE), Row(FALSE, FALSE, FALSE)>>,
      <<Row(TRUE, TRUE, FALSE), Row(FALSE, FALSE, FALSE), Row(TRUE, FALSE, TRUE)>>,
      <<Row(TRUE, TRUE, FALSE), Row(TRUE, TRUE, FALSE), Row(FALSE, FALSE, FALSE)>> }

\* the tables concurrent calls of execute_on_all_servers are run against: those with
\* no, one and two active servers
FanOutRegistries ==
    { <<Row(FALSE, FALSE, FALSE), Row(FALSE, FALSE, FALSE), Row(FALSE, FALSE, FALSE)>>,
      <<Row(FALSE, FALSE, FALSE), Row(TRUE, TRUE, FALSE), Row(FALSE, FALSE, FALSE)>>,
      <<Row(TRUE, TRUE, FALSE), Row(TRUE, TRUE, FALSE), Row(FALSE, FALSE, FALSE)>> }

\* and the tables a single caller is run against: those, and three active servers, two
\* of them multi-enabled, the last one flagged default
SoloRegistries ==
    Registries \cup
    { <<Row(TRUE, FALSE, FALSE), Row(TRUE, TRUE, FALSE), Row(TRUE, TRUE, TRUE)>> }

\* fan-out calls a warm service has already answered
WarmCalls == failure_threshold - 1

\* the breakers after WarmCalls fan-out calls at time 0 on which server w failed every
\* time and every other active server succeeded every time
WarmBreakers(tbl, w) ==
    [s \in {x \in Servers : tbl[x].is_active} |->
        IF s = w
        THEN [failure_count |-> WarmCalls, last_failure_time |-> 0, state |-> CLOSED,
              successful_calls |-> 0]
        ELSE [failure_count |-> 0, last_failure_time |-> 0, state |-> CLOSED,
              successful_calls |-> WarmCalls]]

\* and the latencies recorded by those calls
WarmMetrics(tbl, w) ==
    [s \in {x \in Servers : tbl[x].is_active /\ x # w} |-> [i \in 1..WarmCalls |-> 0]]

EmptyMap == [s \in {} |-> 0]

\* the server that failed in the warm service's calls: the last one of the query order
WarmFailing(tbl) == get_powerdns_settings(tbl)[Len(get_powerdns_settings(tbl))]

\* a service just constructed (125-129), or one whose execute_on_all_servers has served
\* WarmCalls calls on two servers or more
ServiceInit(tables) ==
    /\ endpoints \in tables
    /\ \/ /\ circuit_breakers = EmptyMap
          /\ performance_metrics = EmptyMap
       \/ /\ Len(get_powerdns_settings(endpoints)) > 1
          /\ circuit_breakers = WarmBreakers(endpoints, WarmFailing(endpoints))
          /\ performance_metrics = WarmMetrics(endpoints, WarmFailing(endpoints))
    /\ op = [c \in Callers |-> IdleOp]
    /\ task = [c \in Callers |-> [s \in Servers |-> NoTask]]
    /\ ret = [c \in Callers |-> NoReturn]
    /\ adapter_calls = [c \in Callers |-> <<>>]
    /\ cb_records = [c \in Callers |-> [s \in Servers |-> NoRecords]]
    /\ started = 0

\* the service of the breaker and result harnesses: constructed, never called
ServiceUnused ==
    /\ endpoints = [s \in Servers |->
                      [is_active |-> FALSE, multi_server_mode |-> FALSE, is_default |-> FALSE]]
    /\ circuit_breakers = EmptyMap
    /\ performance_metrics = EmptyMap
    /\ op = [c \in Callers |-> IdleOp]
    /\ task = [c \in Callers |-> [s \in Servers |-> NoTask]]
    /\ ret = [c \in Callers |-> NoReturn]
    /\ adapter_calls = [c \in Callers |-> <<>>]
    /\ cb_records = [c \in Callers |-> [s \in Servers |-> NoRecords]]
    /\ started = 0

-----------------------------------------------------------------------------
(* Specifications *)

Init ==
    /\ now = 0
    /\ CBInit
    /\ res = NewResult
    /\ ServiceInit(FanOutRegistries)
    /\ RaceUnused
    /\ AdminUnused
    /\ TokensUnused
    /\ LimiterUnused

InitWrappers ==
    /\ now = 0
    /\ CBInit
    /\ res = NewResult
    /\ ServiceInit(Registries)
    /\ RaceUnused
    /\ AdminUnused
    /\ TokensUnused
    /\ LimiterUnused

\* what the event loop can run next for a wrapper call of caller c
WrapperNext(c) ==
    \/ \E m \in Wrappers : Invoke(c, m)
    \/ \E db_ok \in BOOLEAN : ModeQuery(c, db_ok)
    \/ \E db_ok \in BOOLEAN : DefaultQuery(c, db_ok)
    \/ \E db_ok \in BOOLEAN : FallbackQuery(c, db_ok)
    \/ \E ok \in BOOLEAN : SingleComplete(c, ok)

\* what the event loop can run next for a call of execute_on_all_servers by caller c;
\* the call is made with the operation of one of four wrappers: one that raises on
\* an undefined method, one that raises on its argument, one that retries and one
\* that makes a single request (delete_record's operation, a single request too, is
\* called in single-endpoint mode, see WrapperNext)
FanOutNext(c) ==
    \/ \E m \in Wrappers \ {"delete_record"} : InvokeFanOut(c, m)
    \/ \E db_ok \in BOOLEAN : ActiveQuery(c, db_ok)
    \/ StartTasks(c)
    \/ \E s \in Servers : TaskRetry(c, s)
    \/ \E s \in Servers, ok \in BOOLEAN : TaskComplete(c, s, ok)
    \/ Gathered(c)
    \/ Timeout(c)
    \/ TimedOut(c)

\* what the event loop can run next for caller c
CallerNext(c) ==
    \/ WrapperNext(c)
    \/ FanOutNext(c)

Next ==
    \/ Tick
    \/ \E c \in Callers : FanOutNext(c)

\* execute_on_all_servers under concurrent callers
Spec == Init /\ [][Next]_vars

NextWrappers ==
    \/ Tick
    \/ \E c \in Callers : WrapperNext(c)

\* the five wrappers under concurrent callers
SpecWrappers == InitWrappers /\ [][NextWrappers]_vars

InitSolo ==
    /\ now = 0
    /\ CBInit
    /\ res = NewResult
    /\ ServiceInit(SoloRegistries)
    /\ RaceUnused
    /\ AdminUnused
    /\ TokensUnused
    /\ LimiterUnused

NextSolo ==
    \/ Tick
    \/ CallerNext("c1")

\* the service under one caller that makes its calls one after the other
SpecSolo == InitSolo /\ [][NextSolo]_vars

\* a service that has long been running in fan-out mode: each active server has
\* answered n calls in 1, 2, ... n ms, n being one less than the window or the window
LongRunInit(tables) ==
    /\ endpoints \in tables
    /\ \E n \in {metrics_window - 1, metrics_window} :
        /\ circuit_breakers =
              [s \in {x \in Servers : endpoints[x].is_active} |->
                 [failure_count |-> 0, last_failure_time |-> 0, state |-> CLOSED,
                  successful_calls |-> n]]
        /\ performance_metrics =
              [s \in {x \in Servers : endpoints[x].is_active} |-> [i \in 1..n |-> i]]
    /\ op = [c \in Callers |-> IdleOp]
    /\ task = [c \in Callers |-> [s \in Servers |-> NoTask]]
    /\ ret = [c \in Callers |-> NoReturn]
    /\ adapter_calls = [c \in Callers |-> <<>>]
    /\ cb_records = [c \in Callers |-> [s \in Servers |-> NoRecords]]
    /\ started = 0

InitMetrics ==
    /\ now = 0
    /\ CBInit
    /\ res = NewResult
    /\ LongRunInit(SoloRegistries)
    /\ RaceUnused
    /\ AdminUnused
    /\ TokensUnused
    /\ LimiterUnused

\* one caller on a service whose metrics lists are about full
SpecMetrics == InitMetrics /\ [][NextSolo]_vars

\* the breakers after failure_threshold fan-out calls at time 0 on which server w
\* failed every time, which opened its breaker, and every other active server succeeded
TrippedBreakers(tbl, w) ==
    [s \in {x \in Servers : tbl[x].is_active} |->
        IF s = w
        THEN [failure_count |-> failure_threshold, last_failure_time |-> 0, state |-> OPEN,
              successful_calls |-> 0]
        ELSE [failure_count |-> 0, last_failure_time |-> 0, state |-> CLOSED,
              successful_calls |-> failure_threshold]]

\* and the latencies recorded by those calls
TrippedMetrics(tbl, w) ==
    [s \in {x \in Servers : tbl[x].is_active /\ x # w} |->
        [i \in 1..failure_threshold |-> 0]]

\* a service just constructed, or one whose fan-out calls have opened the breaker of
\* the endpoint that get_default_powerdns_setting returns
TrippedInit(tables) ==
    /\ endpoints \in tables
    /\ \/ /\ circuit_breakers = EmptyMap
          /\ performance_metrics = EmptyMap
       \/ /\ get_default_powerdns_setting(endpoints) \in Servers
          /\ circuit_breakers =
                TrippedBreakers(endpoints, get_default_powerdns_setting(endpoints))
          /\ performance_metrics =
                TrippedMetrics(endpoints, get_default_powerdns_setting(endpoints))
    /\ op = [c \in Callers |-> IdleOp]
    /\ task = [c \in Callers |-> [s \in Servers |-> NoTask]]
    /\ ret = [c \in Callers |-> NoReturn]
    /\ adapter_calls = [c \in Callers |-> <<>>]
    /\ cb_records = [c \in Callers |-> [s \in Servers |-> NoRecords]]
    /\ started = 0

InitBypass ==
    /\ now = 0
    /\ CBInit
    /\ res = NewResult
    /\ TrippedInit(SoloRegistries)
    /\ RaceUnused
    /\ AdminUnused
    /\ TokensUnused
    /\ LimiterUnused

\* one caller on a service whose default endpoint's breaker is Open
SpecBypass == InitBypass /\ [][NextSolo]_vars

NextHealth ==
    \/ NextSolo
    \/ InvokeHealth("c1")
    \/ \E db_ok \in BOOLEAN : HealthQuery("c1", db_ok)

\* one caller that also asks for the health status between its calls
SpecHealth == InitSolo /\ [][NextHealth]_vars

InitCB ==
    /\ now = 0
    /\ CBInit
    /\ res = NewResult
    /\ ServiceUnused
    /\ RaceUnused
    /\ AdminUnused
    /\ TokensUnused
    /\ LimiterUnused

NextCB ==
    \/ CBTick
    \/ CBCanExecute
    \/ CBRecordSuccess
    \/ CBRecordFailure

SpecCB == InitCB /\ [][NextCB]_vars

InitResult ==
    /\ now = 0
    /\ CBInit
    /\ res = NewResult
    /\ ServiceUnused
    /\ RaceUnused
    /\ AdminUnused
    /\ TokensUnused
    /\ LimiterUnused

NextResult == ResAddResult

SpecResult == InitResult /\ [][NextResult]_vars

InitRace ==
    /\ now = 0
    /\ CBInit
    /\ res = NewResult
    /\ ServiceUnused
    /\ RaceInit
    /\ AdminUnused
    /\ TokensUnused
    /\ LimiterUnused

NextRace ==
    \/ CBTick
    \/ \E t \in RaceTasks : RaceStart(t)
    \/ \E t \in RaceTasks, ok \in BOOLEAN : RaceFinish(t, ok)

\* two tasks racing on one server's breaker
SpecRace == InitRace /\ [][NextRace]_vars

InitSettings ==
    /\ now = 0
    /\ CBInit
    /\ res = NewResult
    /\ circuit_breakers = EmptyMap
    /\ performance_metrics = EmptyMap
    /\ op = [c \in Callers |-> IdleOp]
    /\ task = [c \in Callers |-> [s \in Servers |-> NoTask]]
    /\ ret = [c \in Callers |-> NoReturn]
    /\ adapter_calls = [c \in Callers |-> <<>>]
    /\ cb_records = [c \in Callers |-> [s \in Servers |-> NoRecords]]
    /\ started = 0
    /\ RaceUnused
    /\ AdminInit
    /\ TokensUnused
    /\ LimiterUnused

\* what the event loop can run next for request r
RequestNext(r) ==
    \/ \E body \in CreateBodies : AdminCreate(r, body)
    \/ \E id \in Servers, body \in UpdateBodies : AdminUpdate(r, id, body)
    \/ \E id \in Servers : AdminDelete(r, id)
    \/ AdminGet(r)
    \/ AdminUnset(r)
    \/ AdminCommit(r)
    \/ AdminDefault(r)
    \/ AdminFallback(r)
    \/ AdminRefresh(r)

NextSettings == \E r \in Requests : RequestNext(r)

\* two concurrent requests of the settings API on one table
SpecSettings == InitSettings /\ [][NextSettings]_vars

InitTokens ==
    /\ now = 0
    /\ CBInit
    /\ res = NewResult
    /\ ServiceUnused
    /\ RaceUnused
    /\ AdminUnused
    /\ TokensUnused
    /\ LimiterUnused

\* what the event loop can run next for request r of the token API
TokenRequestNext(r) ==
    \/ TokenCreate(r)
    \/ TokenCount(r)
    \/ \E id \in TokenIds, v \in BOOLEAN : TokenUpdate(r, id, v)
    \/ \E id \in TokenIds : TokenDelete(r, id)
    \/ TokenGet(r)
    \/ TokenCommit(r)
    \/ TokenRefresh(r)
    \/ UserDelete(r)
    \/ UserGet(r)
    \/ UserCascade(r)
    \/ UserFlush(r)
    \/ UserCommit(r)

NextTokens == \E r \in Requests : TokenRequestNext(r)

\* two concurrent requests, of one user on the token API or of a superuser deleting
\* that user
SpecTokens == InitTokens /\ [][NextTokens]_vars

InitLimiter ==
    /\ now = 0
    /\ CBInit
    /\ res = NewResult
    /\ ServiceUnused
    /\ RaceUnused
    /\ AdminUnused
    /\ TokensUnused
    /\ LimiterUnused

NextLimiter ==
    \/ LimiterTick
    \/ \E key \in Keys : LimiterCall(key)

\* the in-memory rate limiter under the requests of one key
SpecLimiter == InitLimiter /\ [][NextLimiter]_vars

-----------------------------------------------------------------------------
(* Properties *)

\* the steps of caller c that end its call, and the result the call then hands over
Returns(c) == op[c].pc # "idle" /\ op'[c].pc = "idle"
FanOutReturns(c) == op[c].pc \in {"active_query", "gather", "cancelling"} /\ op'[c].pc = "idle"

\* the servers of caller c's fan-out whose call failed
FailedCalls(c) == {s \in Range(op[c].servers) : ~task[c][s].success}

\* the active multi-enabled rows
MultiEnabled == {s \in Servers : endpoints[s].multi_server_mode /\ endpoints[s].is_active}

\* the breaker refuses calls at time t
Blocked(b, t) == b.state = OPEN /\ t - b.last_failure_time <= recovery_timeout

\* the task of caller c for server s found the breaker open when it started
Refused(c, s) == task[c][s].st = "done" /\ task[c][s].error = CircuitOpenError

\* C1: when a fan-out over N >= 1 servers ends without the timeout and k of the N
\* calls failed, the result counts N servers, N - k successes and k failures; it is a
\* complete success when k = 0 and a partial success when 0 < k < N.
C1_FanOutCounts ==
    [][\A c \in Callers :
         (op[c].pc = "gather" /\ op'[c].pc = "idle" /\ ~ret'[c].timed_out) =>
            LET N == Len(op[c].servers)
                k == Cardinality(FailedCalls(c))
                r == ret'[c].result
            IN  /\ ret'[c].kind = "result"
                /\ N >= 1
                /\ r.total_servers = N
                /\ r.success_count = N - k
                /\ r.failure_count = k
                /\ (k = 0 => is_complete_success(r))
                /\ (0 < k /\ k < N => is_partial_success(r))]_vars

\* a fan-out over two servers returned, without timeout, one success and one failure
C1_Witness ==
    \E c \in Callers :
        /\ ret[c].kind = "result" /\ ret[c].mode = "multi" /\ ~ret[c].timed_out
        /\ ret[c].result.total_servers = 2
        /\ ret[c].result.success_count = 1
        /\ is_partial_success(ret[c].result)

\* C2: complete success is success_count = total_servers > 0, partial success is
\* 0 < success_count < total_servers, complete failure is failure_count =
\* total_servers > 0, and none of the three holds of a result with no server.
C2_Classification ==
    /\ is_complete_success(res) <=>
          (res.success_count = res.total_servers /\ res.total_servers > 0)
    /\ is_partial_success(res) <=>
          (0 < res.success_count /\ res.success_count < res.total_servers)
    /\ is_complete_failure(res) <=>
          (res.failure_count = res.total_servers /\ res.total_servers > 0)
    /\ (res.total_servers = 0 =>
          ~is_complete_success(res) /\ ~is_partial_success(res) /\ ~is_complete_failure(res))

\* three outcomes, two of them successes: a partial success and nothing else
C2_Witness ==
    /\ res.total_servers = 3
    /\ res.success_count = 2
    /\ is_partial_success(res)
    /\ ~is_complete_success(res)
    /\ ~is_complete_failure(res)

\* C3: from Closed with failure_count 0 the breaker stays Closed through fewer than
\* failure_threshold failures in a row; after exactly failure_threshold of them it is
\* Open and can_execute() is false; once more than recovery_timeout has passed since
\* the last failure can_execute() is true and leaves the breaker Half-Open, with no
\* record_* call in between.
C3_OpensAtThresholdThenProbes ==
    /\ (cbRun >= 0 /\ cbRun < failure_threshold) =>
          (cb.state = CLOSED /\ can_execute(cb, now).ret)
    /\ (cbRun = failure_threshold /\ now - cb.last_failure_time <= recovery_timeout) =>
          (cb.state = OPEN /\ ~can_execute(cb, now).ret)
    /\ (cbRun = failure_threshold /\ now - cb.last_failure_time > recovery_timeout) =>
          (can_execute(cb, now).ret /\ can_execute(cb, now).cb.state = HALF_OPEN)
    /\ (cbRun = failure_threshold /\ cbLast.call = "can_execute") =>
          (cbLast.ret <=> cb.state = HALF_OPEN)

\* the fifth failure in a row was recorded, the timeout passed, can_execute() said yes
C3_Witness ==
    /\ cbRun = failure_threshold
    /\ cb.failure_count = failure_threshold
    /\ cb.state = HALF_OPEN
    /\ cbLast = [call |-> "can_execute", ret |-> TRUE]
    /\ now - cb.last_failure_time > recovery_timeout

\* C4: in fan-out mode no client call starts on a server whose breaker is Open with
\* recovery_timeout not yet passed, however the callers interleave.
C4_NoCallWhileOpen ==
    [][\A c \in Callers, s \in Servers :
         (task[c][s].st # "calling" /\ task'[c][s].st = "calling") =>
            /\ s \in DOMAIN circuit_breakers
            /\ ~Blocked(circuit_breakers[s], now)
            /\ \E i \in 1..Len(adapter_calls'[c]) : adapter_calls'[c][i].server = s]_vars

\* a task found its server's breaker open and made no call, while the call of the
\* same fan-out on another server went out
C4_Witness ==
    \E c \in Callers, s \in Servers, o \in Servers :
        /\ op[c].pc = "gather"
        /\ Refused(c, s)
        /\ Blocked(circuit_breakers[s], now)
        /\ task[c][o].st = "calling"
        /\ \A i \in 1..Len(adapter_calls[c]) : adapter_calls[c][i].server # s

\* C5: when the fan-out timeout expires, every call still pending is reported as a
\* failure with the timed-out error, and every call that had completed keeps its real
\* outcome (success flag, payload or error, latency).
C5_CompletedKeepOutcomeOnTimeout ==
    [][\A c \in Callers :
         (op[c].pc \in {"gather", "cancelling"} /\ op'[c].pc = "idle"
             /\ ret'[c].timed_out) =>
            \A i \in 1..Len(op[c].servers) :
                LET tk == task[c][op[c].servers[i]]
                    o == ret'[c].result.results[i]
                IN  /\ tk.st \in {"calling", "retrying", "cancelled"} =>
                          (~o.success /\ o.error = TimedOutError)
                    /\ tk.st = "done" =>
                          /\ o.success = tk.success
                          /\ o.result = tk.result
                          /\ o.error = tk.error
                          /\ o.response_time_ms = tk.response_time_ms]_vars

\* C6: a fan-out never raises because of a server: it returns a result with one
\* outcome per server attempted, in task order, a failure outcome with an error for
\* each call that failed or was cut off and, unless the timeout fired, the call's own
\* outcome; with no eligible server it returns the result of zero servers.
C6_FanOutNeverRaises ==
    [][\A c \in Callers :
         FanOutReturns(c) =>
            LET r == ret'[c].result
                servers == op[c].servers
            IN  /\ ret'[c].kind = "result"
                /\ r.total_servers = Len(servers)
                /\ Len(r.results) = Len(servers)
                /\ \A i \in 1..Len(servers) :
                      LET tk == task[c][servers[i]]
                          o == r.results[i]
                      IN  /\ o.server_id = servers[i]
                          /\ (~tk.success => ~o.success /\ o.error # NoError)
                          /\ (~ret'[c].timed_out => o.success = tk.success)]_vars

\* a fan-out in which every call raised returned its two failure outcomes
C6_Witness ==
    \E c \in Callers :
        /\ ret[c].kind = "result" /\ ret[c].mode = "multi" /\ ~ret[c].timed_out
        /\ ret[c].result.total_servers = 2
        /\ is_complete_failure(ret[c].result)
        /\ \A i \in 1..2 : ret[c].result.results[i].error \in AdapterErrors

\* the client calls a wrapper in single-endpoint mode has made when it returns: those
\* of the call that completes, or those of the try block the returning query step enters
CallsMade(c) ==
    LET d == IF op[c].pc = "default_query" THEN flagged_default(endpoints)
             ELSE IF op[c].pc = "fallback_query" THEN first_active(endpoints)
             ELSE NoServer
    IN  IF op[c].pc = "single_call" THEN adapter_calls[c]
        ELSE IF d \in Servers THEN single_calls(d, op[c].method)
        ELSE <<>>

\* C7: with fewer than 2 active multi-enabled rows a wrapper runs in single-endpoint
\* mode, makes exactly one client call, on the default server, and returns exactly one
\* outcome.
C7_SingleModeOneCall ==
    [][\A c \in Callers :
         /\ (op[c].pc = "mode_query" /\ op'[c].pc # "mode_query"
                /\ Cardinality(MultiEnabled) < 2) => op'[c].mode = "single"
         /\ (Returns(c) /\ Cardinality(MultiEnabled) < 2 /\ ret'[c].kind = "result"
                /\ ret'[c].mode = "single") =>
                /\ Len(CallsMade(c)) = 1
                /\ CallsMade(c)[1].server = get_default_powerdns_setting(endpoints)
                /\ Len(ret'[c].result.results) = 1]_vars

\* C8: with at least 2 active multi-enabled rows a wrapper whose registry queries
\* answer runs in fan-out mode and creates a task for exactly the active rows whose
\* breaker says can_execute() when the servers are selected.
C8_FanOutSelectsActiveAndAllowed ==
    [][\A c \in Callers :
         /\ (op[c].pc = "mode_query" /\ op'[c].pc # "mode_query" /\ op'[c].registry_ok
                /\ Cardinality(MultiEnabled) >= 2) => op'[c].mode = "multi"
         /\ (op[c].pc = "active_query" /\ op'[c].pc # "active_query"
                /\ (IF op'[c].pc = "idle" THEN ret'[c].registry_ok ELSE op'[c].registry_ok)) =>
                {s \in Servers : task'[c][s].st = "created"} =
                {s \in Servers :
                    /\ endpoints[s].is_active
                    /\ can_execute(get_circuit_breaker(circuit_breakers, s), now).ret}]_vars

\* C9: a server whose circuit is open when a fan-out reaches it is skipped silently:
\* no record_failure() is applied to its breaker and it has no outcome in the result,
\* also when the circuit opened after the servers were selected.
C9_OpenCircuitSkippedSilently ==
    [][\A c \in Callers, s \in Servers :
         /\ Refused(c, s)' => cb_records'[c][s].failure = 0
         /\ (Refused(c, s) /\ op[c].pc \in {"gather", "cancelling"}
                /\ op'[c].pc = "idle") =>
                \A i \in 1..Len(ret'[c].result.results) :
                    ret'[c].result.results[i].server_id # s]_vars

\* C10: for every outcome of a fan-out result the server's breaker has received, before
\* the outcome was appended, exactly one record for that call, record_success() for a
\* success outcome and record_failure() for a failure outcome.
C10_OneRecordPerOutcome ==
    [][\A c \in Callers :
         (op[c].pc \in {"gather", "cancelling"} /\ op'[c].pc = "idle") =>
            \A i \in 1..Len(ret'[c].result.results) :
                LET o == ret'[c].result.results[i]
                IN  cb_records[c][o.server_id] =
                        IF o.success THEN [success |-> 1, failure |-> 0]
                        ELSE [success |-> 0, failure |-> 1]]_vars

\* C11: when the fan-out timeout cancels a call that is still pending, and the
\* cancellation ends the call, record_failure() is applied once to the server's breaker
\* for it: failure_count grows by 1 and last_failure_time becomes the time of the
\* cancellation.
C11_CancelledCallRecordedAsFailure ==
    [][\A c \in Callers, s \in Servers :
         (/\ op[c].pc = "gather"
          /\ op'[c].pc = "cancelling"
          /\ s \in Range(op[c].servers)
          /\ cancel(task[c][s], op[c].method).st = "cancelled") =>
            /\ circuit_breakers'[s].failure_count = circuit_breakers[s].failure_count + 1
            /\ circuit_breakers'[s].last_failure_time = now]_vars

\* C12: when two tasks in flight at the same time record their outcomes on the same
\* server's breaker, none is lost: once both are done, failure_count, successful_calls
\* and state of the breaker circuit_breakers holds are what the two record calls give
\* when applied one after the other, in one of the two orders, to the breaker as it was
\* when both were in flight.
C12_NoLostUpdate ==
    (/\ \A t \in RaceTasks : race[t].pc = "done"
     /\ raceLog.base.set
     /\ Len(raceLog.records) = 2) =>
        \E i \in 1..2 :
            LET serial == apply_record(apply_record(raceLog.base.cb, raceLog.records[i]),
                                       raceLog.records[3 - i])
                final == objects[breaker_ref]
            IN  /\ final.failure_count = serial.failure_count
                /\ final.successful_calls = serial.successful_calls
                /\ final.state = serial.state

\* both tasks were in flight on a breaker one failure short of two below the threshold,
\* both calls raised, and the breaker is Open with both failures counted
C12_Witness ==
    /\ \A t \in RaceTasks : race[t].pc = "done"
    /\ raceLog.base.set
    /\ raceLog.base.cb.failure_count = failure_threshold - 2
    /\ raceLog.base.cb.state = CLOSED
    /\ \A i \in 1..2 : raceLog.records[i].kind = "failure"
    /\ objects[breaker_ref].failure_count = failure_threshold
    /\ objects[breaker_ref].state = OPEN

\* C13: in Half-Open can_execute() is true; record_success() closes the breaker with
\* failure_count 0; record_failure() adds 1 to failure_count and opens the breaker when
\* the count has reached failure_threshold, and leaves it Half-Open otherwise.
C13_HalfOpenTransitions ==
    cb.state = HALF_OPEN =>
        LET s == record_success(cb)
            f == record_failure(cb, now)
        IN  /\ can_execute(cb, now).ret
            /\ s.state = CLOSED /\ s.failure_count = 0
            /\ f.failure_count = cb.failure_count + 1
            /\ f.state = IF f.failure_count >= failure_threshold THEN OPEN ELSE HALF_OPEN

\* the probe of a Half-Open breaker failed below the threshold: still Half-Open, and
\* calls are still let through
C13_Witness ==
    /\ cb.state = HALF_OPEN
    /\ cbLast.call = "record_failure"
    /\ cb.failure_count > 0 /\ cb.failure_count < failure_threshold
    /\ can_execute(cb, now).ret

\* C14: record_success() sets failure_count to 0 and adds 1 to successful_calls in every
\* state; after fewer than failure_threshold failures in a row on a Closed breaker one
\* record_success() leaves failure_count 0 and the breaker Closed.
C14_SuccessResetsFailureCount ==
    LET s == record_success(cb)
    IN  /\ s.failure_count = 0
        /\ s.successful_calls = cb.successful_calls + 1
        /\ (cbRun >= 0 /\ cbRun < failure_threshold) => s.state = CLOSED
        /\ cbLast.call = "record_success" => cb.failure_count = 0

\* a success was recorded on a breaker that had failures but was never opened (the
\* clock has not passed recovery_timeout): no failure left, Closed
C14_Witness ==
    /\ cbLast.call = "record_success"
    /\ cb.successful_calls = 1
    /\ cb.last_failure_time > 0
    /\ now <= recovery_timeout
    /\ cb.failure_count = 0
    /\ cb.state = CLOSED

\* C15: record_failure() on an Open breaker leaves it Open, adds 1 to failure_count
\* (5 becomes 6), and can_execute() is false right after it.
C15_FailureWhileOpen ==
    cb.state = OPEN =>
        LET f == record_failure(cb, now)
        IN  /\ f.state = OPEN
            /\ f.failure_count = cb.failure_count + 1
            /\ ~can_execute(f, now).ret
            /\ can_execute(f, now).cb.state = OPEN

\* a sixth failure in a row was recorded, after recovery_timeout had passed since the
\* fifth: Open, count 6, calls refused
C15_Witness ==
    /\ cbRun = failure_threshold + 1
    /\ cbLast.call = "record_failure"
    /\ cb.failure_count = failure_threshold + 1
    /\ cb.state = OPEN
    /\ cb.last_failure_time > recovery_timeout
    /\ ~can_execute(cb, now).ret

\* C16: can_execute() has no side effects: whatever the state and the time, the breaker
\* after the call has the fields it had before.
C16_CanExecuteHasNoSideEffects ==
    can_execute(cb, now).cb = cb

\* C17: a wrapper call during which a registry query raised ends by raising to its
\* caller instead of returning a result, and a call raises for no other reason.
C17_RegistryFailurePropagates ==
    [][\A c \in Callers :
         Returns(c) => (ret'[c].kind = "raise" <=> ~ret'[c].registry_ok)]_vars

\* C18: in single-endpoint mode with no endpoint to use, a wrapper whose registry
\* queries answer returns, without raising and without any client call, a result whose
\* only outcome is the failure naming the missing default server.
C18_NoEndpointOneFailure ==
    [][\A c \in Callers :
         (/\ FallbackQuery(c, TRUE)
          /\ \A s \in Servers : ~endpoints[s].is_active) =>
            /\ Returns(c)
            /\ ret'[c].kind = "result"
            /\ ret'[c].mode = "single"
            /\ adapter_calls[c] = <<>> /\ adapter_calls'[c] = <<>>
            /\ ret'[c].result.total_servers = 1
            /\ ret'[c].result.failure_count = 1
            /\ Len(ret'[c].result.results) = 1
            /\ ~ret'[c].result.results[1].success
            /\ ret'[c].result.results[1].error = NoDefaultError]_vars

\* with no active row a wrapper returned the one "no default server" failure
C18_Witness ==
    \E c \in Callers :
        /\ \A s \in Servers : ~endpoints[s].is_active
        /\ op[c].pc = "idle"
        /\ ret[c].kind = "result" /\ ret[c].mode = "single" /\ ret[c].registry_ok
        /\ ret[c].result.results =
              <<[server_name |-> "No default server", server_id |-> 0, success |-> FALSE,
                 result |-> NoPayload, error |-> NoDefaultError, response_time_ms |-> 0]>>
        /\ adapter_calls[c] = <<>>

\* C20: whatever create, update and delete requests ran, interleaved or not, at most one
\* row of the table is flagged default.
C20_AtMostOneDefault ==
    Cardinality({s \in DOMAIN endpoints : endpoints[s].is_default}) <= 1

\* C19: get_default_powerdns_setting answers, never raising, with the active row flagged
\* default when there is one, else with the active row of lowest id, and with no row
\* only when no row is active; each of its two queries is held to the table it reads.
C19_DefaultEndpointResolved ==
    [][\A r \in Requests :
         LET defaults == {s \in DOMAIN endpoints :
                            endpoints[s].is_default /\ endpoints[s].is_active}
             active == {s \in DOMAIN endpoints : endpoints[s].is_active}
         IN  /\ (req[r].pc = "idle" /\ req'[r].pc = "fallback") => defaults = {}
             /\ (/\ req[r].pc = "idle" /\ req'[r].pc = "idle"
                 /\ req'[r].kind = "get_default" /\ req'[r] # req[r]) =>
                    /\ req'[r].ret.kind = "value"
                    /\ req'[r].ret.value \in defaults
             /\ (req[r].pc = "fallback" /\ req'[r].pc = "idle") =>
                    /\ req'[r].ret.kind = "value"
                    /\ IF active # {}
                       THEN /\ req'[r].ret.value \in active
                            /\ \A o \in active : req'[r].ret.value <= o
                       ELSE req'[r].ret.value = NoServer]_vars

\* C21: a fan-out result classified as partial success lists each attempted endpoint
\* exactly once, by id and name, with its success flag, and each of its failure outcomes
\* carries a non-empty error message.
C21_PartialSuccessReportsEveryEndpoint ==
    [][\A c \in Callers :
         (FanOutReturns(c) /\ is_partial_success(ret'[c].result)) =>
            LET r == ret'[c].result.results
            IN  /\ Len(r) = Len(op[c].servers)
                /\ \A i \in 1..Len(r) :
                     /\ r[i].server_id = op[c].servers[i]
                     /\ r[i].server_name = ServerName(op[c].servers[i])
                     /\ r[i].success = task[c][op[c].servers[i]].success
                     /\ (~r[i].success => r[i].error # "")
                /\ \A i, j \in 1..Len(r) : r[i].server_id = r[j].server_id => i = j]_vars

\* C22: get_fastest_server names a success outcome of minimal response_time_ms among
\* the success outcomes, whatever the failures' latencies are, and answers with none
\* exactly when the result has no success outcome.
C22_FastestIsASuccess ==
    LET ok == {i \in DOMAIN res.results : res.results[i].success}
    IN  IF ok = {} THEN get_fastest_server(res) = NoName
        ELSE \E i \in ok :
                /\ get_fastest_server(res) = res.results[i].server_name
                /\ \A j \in ok : res.results[i].response_time_ms
                                    <= res.results[j].response_time_ms

\* A succeeded in 50 ms, B failed in 10 ms, C succeeded in 200 ms: A is the fastest
C22_Witness ==
    /\ Len(res.results) = 3
    /\ res.results[1].server_name = "ns1" /\ res.results[1].success
    /\ res.results[1].response_time_ms = 50
    /\ res.results[2].server_name = "ns2" /\ ~res.results[2].success
    /\ res.results[2].response_time_ms = 10
    /\ res.results[3].server_name = "ns3" /\ res.results[3].success
    /\ res.results[3].response_time_ms = 200
    /\ get_fastest_server(res) = "ns1"

\* C23: a call of get_health_status leaves circuit_breakers (no breaker made, no state
\* or counter changed, an Open breaker still Open) and performance_metrics as they were.
C23_HealthStatusHasNoSideEffects ==
    [][\A c \in Callers :
         (op[c].pc = "health_query" /\ op'[c].pc = "idle") =>
            /\ circuit_breakers' = circuit_breakers
            /\ performance_metrics' = performance_metrics]_vars

\* the health status was returned while a server's breaker was Open with its recovery
\* timeout over, and the breaker is Open still
C23_Witness ==
    \E c \in Callers, s \in Servers :
        /\ ret[c].kind = "health" /\ op[c].pc = "idle"
        /\ ret[c].at = now
        /\ endpoints[s].is_active
        /\ s \in DOMAIN circuit_breakers
        /\ circuit_breakers[s].state = OPEN
        /\ now - circuit_breakers[s].last_failure_time > recovery_timeout
        /\ ret[c].health.circuit_breaker_status[s].state = OPEN
        /\ ret[c].health.healthy_servers < ret[c].health.active_servers

\* C24: a token creation that finds max_api_tokens or more active tokens of the user
\* ends with status 400 and adds no token; one that finds fewer goes on, adds exactly
\* one token, an active one, and ends with status 200.
C24_TokenLimitOnCreate ==
    [][\A r \in Requests :
         LET active == {t \in DOMAIN api_tokens : api_tokens[t].is_active}
         IN  /\ (token_req[r].pc = "count" /\ token_req'[r] # token_req[r]) =>
                  IF Cardinality(active) >= max_api_tokens
                  THEN /\ token_req'[r].pc = "idle"
                       /\ token_req'[r].status = HTTP_400_BAD_REQUEST
                       /\ api_tokens' = api_tokens
                  ELSE /\ token_req'[r].pc = "commit"
                       /\ api_tokens' = api_tokens
             /\ (/\ token_req[r].kind = "create" /\ token_req[r].pc = "commit"
                 /\ token_req'[r] # token_req[r]) =>
                  /\ token_req'[r].pc = "refresh"
                  /\ \E id \in TokenIds \ DOMAIN api_tokens :
                        /\ DOMAIN api_tokens' = DOMAIN api_tokens \cup {id}
                        /\ api_tokens'[id].is_active
                        /\ \A t \in DOMAIN api_tokens : api_tokens'[t] = api_tokens[t]
             /\ (/\ token_req[r].kind = "create" /\ token_req[r].pc = "refresh"
                 /\ token_req'[r] # token_req[r]) =>
                  /\ token_req'[r].pc = "idle"
                  /\ token_req'[r].status = HTTP_200_OK
                  /\ api_tokens' = api_tokens]_vars

\* C30: whatever create, PATCH and delete requests of the user ran, the user's active
\* tokens are never more than max_api_tokens.
C30_ActiveTokensWithinLimit ==
    Cardinality({t \in DOMAIN api_tokens : api_tokens[t].is_active}) <= max_api_tokens

\* C25: each endpoint's performance_metrics list never holds more than metrics_window
\* latencies; it changes only when a fan-out task's client call on that endpoint
\* returns, and then it is the old list with the call's latency appended, cut to its
\* last metrics_window entries.
C25_MetricsKeepLastWindow ==
    [][\A s \in Servers :
         LET old == IF s \in DOMAIN performance_metrics
                    THEN performance_metrics[s] ELSE <<>>
             new == IF s \in DOMAIN performance_metrics'
                    THEN performance_metrics'[s] ELSE <<>>
             lastWindow(q) == IF Len(q) > metrics_window
                              THEN [i \in 1..metrics_window |-> q[Len(q) - metrics_window + i]]
                              ELSE q
             succeeded(c) == /\ op[c].mode = "multi"
                             /\ task[c][s].st = "calling"
                             /\ task'[c][s].st = "done" /\ task'[c][s].success
         IN  /\ Len(new) <= metrics_window
             /\ \A c \in Callers :
                  succeeded(c) => new = lastWindow(Append(old, task'[c][s].response_time_ms))
             /\ new # old => \E c \in Callers : succeeded(c)]_vars

\* a full list of latencies 1..metrics_window took one more measurement: the oldest one
\* is gone, the others moved up, the new one is last
C25_Witness ==
    \E s \in DOMAIN performance_metrics :
        /\ Len(performance_metrics[s]) = metrics_window
        /\ performance_metrics[s][1] = 2
        /\ performance_metrics[s][metrics_window - 1] = metrics_window
        /\ performance_metrics[s][metrics_window] # metrics_window
        /\ circuit_breakers[s].successful_calls = metrics_window + 1

\* C26: a key whose is_allowed calls within one window number 2 x limit or more is
\* blocked for block_time by the call that makes them so many, and a key that is
\* blocked is answered not-allowed with blocked_for until the block expires.
C26_RepeatedViolationsBlock ==
    [][\A key \in Keys :
         calls'[key] # calls[key] =>
            LET inWindow == {i \in DOMAIN calls'[key] : now - calls'[key][i] < RateWindow}
            IN  /\ Cardinality(inWindow) >= 2 * RateLimit =>
                     /\ key \in DOMAIN blocked_ips'
                     /\ blocked_ips'[key] > now
                /\ (key \in DOMAIN blocked_ips /\ blocked_ips[key] > now) =>
                     /\ ~allowed'.allowed
                     /\ "blocked_for" \in DOMAIN allowed'.info]_vars

\* C27: a breaker of the service that is Open has a failure_count of at least
\* failure_threshold, also after the success of a call admitted before it opened.
C27_OpenImpliesThresholdReached ==
    \A s \in DOMAIN circuit_breakers :
        circuit_breakers[s].state = OPEN =>
            circuit_breakers[s].failure_count >= failure_threshold

\* C28: after any sequence of add_result calls success_count + failure_count =
\* total_servers = the number of entries of results, the counts are those of the entries'
\* success flags, and exactly one of complete success, partial success, complete
\* failure and no-op (total_servers = 0) holds.
C28_CountsAndOneClass ==
    /\ res.success_count + res.failure_count = res.total_servers
    /\ res.total_servers = Len(res.results)
    /\ res.success_count = Cardinality({i \in DOMAIN res.results : res.results[i].success})
    /\ Cardinality({k \in {"complete_success", "partial_success", "complete_failure",
                           "no_op"} :
                      \/ k = "complete_success" /\ is_complete_success(res)
                      \/ k = "partial_success" /\ is_partial_success(res)
                      \/ k = "complete_failure" /\ is_complete_failure(res)
                      \/ k = "no_op" /\ res.total_servers = 0}) = 1

\* a result of MaxResults outcomes that all failed: a complete failure, nothing else
C28_Witness ==
    /\ Len(res.results) = MaxResults
    /\ res.failure_count = MaxResults
    /\ \A i \in DOMAIN res.results : ~res.results[i].success
    /\ is_complete_failure(res)
    /\ ~is_partial_success(res) /\ ~is_complete_success(res)

\* C29: single-endpoint mode bypasses the circuit breakers. Every step a caller takes
\* in single-endpoint mode leaves circuit_breakers and performance_metrics as they
\* were, and when the default endpoint is found the client method is called on it,
\* also while that endpoint's breaker is Open and would refuse the call: a method that
\* reaches its request starts it, and one that raises first gives that endpoint's
\* failure, never the refusal.
C29_SingleModeBypassesBreakers ==
    [][\A c \in Callers :
         (op[c].mode = "single" /\ op'[c] # op[c])
            => /\ circuit_breakers' = circuit_breakers
               /\ performance_metrics' = performance_metrics
               /\ \A d \in Servers :
                     (\/ DefaultQuery(c, TRUE) /\ flagged_default(endpoints) = d
                      \/ FallbackQuery(c, TRUE) /\ first_active(endpoints) = d)
                        => IF op[c].method \in RaisesAtOnce
                           THEN /\ ret'[c].kind = "result"
                                /\ Len(ret'[c].result.results) = 1
                                /\ ret'[c].result.results[1].server_id = d
                                /\ ret'[c].result.results[1].error # CircuitOpenError
                           ELSE /\ op'[c].pc = "single_call"
                                /\ adapter_calls'[c] =
                                      <<[server |-> d, method |-> op[c].method]>>]_vars

\* a single-endpoint call on the default endpoint has returned a success while that
\* endpoint's breaker is Open and still refusing calls
C29_Witness ==
    \E c \in Callers :
        /\ ret[c] # NoReturn
        /\ ret[c].kind = "result"
        /\ ret[c].mode = "single"
        /\ ret[c].result.success_count = 1
        /\ LET d == get_default_powerdns_setting(endpoints)
           IN  /\ d \in Servers
               /\ d \in DOMAIN circuit_breakers
               /\ circuit_breakers[d].state = OPEN
               /\ ~can_execute(circuit_breakers[d], now).ret

=============================================================================
